---- MODULE Spec2Model ----
(***************************************************************************)
(* Model of the sequelize query-generation layer: the Postgres and Db2     *)
(* TypeScript query generators and the IBM i query generator.              *)
(*                                                                         *)
(* Every generator operation is a pure function of its inputs; the model   *)
(* turns each into an operator that returns a Result record, and one       *)
(* action per operation that calls it with inputs drawn from small sets.   *)
(*                                                                         *)
(* SQL text is a sequence of strings: keywords are single elements, and    *)
(* identifiers are sequences of one-character strings, so that quoting     *)
(* and fragment joining are computed, not assumed.                         *)
(*                                                                         *)
(* JavaScript values are strings: "undefined", "null", "true", "false"     *)
(* and opaque scalars such as "v1".                                        *)
(***************************************************************************)
EXTENDS Integers, Sequences, FiniteSets, TLC

VARIABLES
  sequelizeOptions,  \* the generator's construction-time options
  op,                \* the operation that is called
  args,              \* its arguments
  pc,                \* "called" until the call has run, then "returned"
  result,            \* what the call returned or threw
  previous,          \* what the same call returned the first time, once it is repeated
  indexes,           \* the indexes of the connected database
  calls,             \* the insertQuery calls in progress side by side, each with its locals;
                     \* for the list operations, the calls made so far
  heap,              \* the bind collections that the calls in progress created
  caller,            \* the caller's argument objects as they are now; args keeps them as passed
  technical          \* the lists of technical names that the internals of the dialects own

vars == <<sequelizeOptions, op, args, pc, result, previous, indexes, calls, heap, caller, technical>>

(***************************************************************************)
(* Bounds of the model.                                                    *)
(***************************************************************************)
MaxOptionKeys == 3
MaxAttributeFields == 2

(***************************************************************************)
(* JavaScript values and option objects.                                   *)
(***************************************************************************)
Undefined == "undefined"
Null == "null"

Falsy == {"undefined", "null", "false", "0", ""}

Truthy(v) == v \notin Falsy

\* An options argument: given = FALSE is an absent (undefined) argument,
\* otherwise obj maps the keys present in the object to their values.
NoOptions == [given |-> FALSE, obj |-> <<>>]

\* The objects with at most max of the keys of valuesOf, each key with one
\* of its values.
Objects(valuesOf, max) ==
  UNION {{o \in [K -> UNION {valuesOf[k] : k \in K}] : \A k \in K : o[k] \in valuesOf[k]} :
         K \in {S \in SUBSET DOMAIN valuesOf : Cardinality(S) <= max}}

OptionArgs(valuesOf) ==
  {NoOptions} \cup {[given |-> TRUE, obj |-> o] : o \in Objects(valuesOf, MaxOptionKeys)}

\* options?.key
OptGet(options, key) ==
  IF options.given /\ key \in DOMAIN options.obj THEN options.obj[key] ELSE Undefined

\* Object.keys(options)
OptKeys(options) == IF options.given THEN DOMAIN options.obj ELSE {}

(***************************************************************************)
(* Results of a generator call.                                            *)
(***************************************************************************)
NoBind == [given |-> FALSE, values |-> <<>>]

Ok(query, steps) ==
  [ok |-> TRUE, error |-> "", query |-> query, bind |-> NoBind,
   steps |-> steps, delegated |-> FALSE, valueMap |-> <<>>, rows |-> {}]

\* rows is what the database returned when the query interface ran the query.
\* The result of insertQuery: {query, bind}; valueMap is the call's local
\* column -> SQL value map, kept to state properties of the two lists.
OkInsert(query, bind, steps, valueMap) ==
  [ok |-> TRUE, error |-> "", query |-> query, bind |-> bind,
   steps |-> steps, delegated |-> FALSE, valueMap |-> valueMap, rows |-> {}]

Fail(error, steps) ==
  [ok |-> FALSE, error |-> error, query |-> <<>>, bind |-> NoBind,
   steps |-> steps, delegated |-> FALSE, valueMap |-> <<>>, rows |-> {}]

\* Result of a call that hands its arguments to the base class.
Delegated(steps) ==
  [ok |-> TRUE, error |-> "", query |-> <<>>, bind |-> NoBind,
   steps |-> steps, delegated |-> TRUE, valueMap |-> <<>>, rows |-> {}]

ConfigurationError == "ConfigurationError"

(***************************************************************************)
(* Escaper, fragment assembler, option validator.                          *)
(***************************************************************************)
RECURSIVE DoubleQuotes(_, _)
DoubleQuotes(name, q) ==
  IF name = <<>> THEN <<>>
  ELSE (IF Head(name) = q THEN <<q, q>> ELSE <<Head(name)>>) \o DoubleQuotes(Tail(name), q)

\* quoteIdentifier(name): wrap in the quote character, doubling embedded ones.
QuoteIdentifier(name) == <<"\"">> \o DoubleQuotes(name, "\"") \o <<"\"">>

\* escape(value) without a bind function: the SQL literal of the value.
EscapeLiteral(value) ==
  IF value = Null THEN <<"NULL">>
  ELSE IF value \in {"true", "false", "0", "1"} THEN <<value>>
  ELSE <<"'">> \o DoubleQuotes(<<value>>, "'") \o <<"'">>

\* escape(name) of a string given as its characters: the SQL string literal.
EscapeString(name) == <<"'">> \o DoubleQuotes(name, "'") \o <<"'">>

\* A table argument is a TableDescriptor; schema = <<>> is an absent schema.
NoSchema == <<>>

DefaultSchema(dialect) == IF dialect = "postgres" THEN <<"p">> ELSE <<"D">>

\* extractTableDetails(tableName)
ExtractTableDetails(table, dialect) ==
  [tableName |-> table.tableName,
   schema |-> IF table.schema = NoSchema THEN DefaultSchema(dialect) ELSE table.schema]

\* quoteTable(table): schema.table, each segment quoted; no schema segment
\* for an unscoped table.
QuoteTable(table) ==
  IF table.schema = NoSchema THEN QuoteIdentifier(table.tableName)
  ELSE QuoteIdentifier(table.schema) \o <<".">> \o QuoteIdentifier(table.tableName)

\* [...].join(separator) over SQL texts
RECURSIVE JoinWith(_, _)
JoinWith(texts, separator) ==
  IF texts = <<>> THEN <<>>
  ELSE IF Len(texts) = 1 THEN Head(texts)
  ELSE Head(texts) \o <<separator>> \o JoinWith(Tail(texts), separator)

\* A mutant of JoinSQLFragments: empty fragments are joined like the others.
JoinSQLFragments_KeepsEmpties(fragments) == JoinWith(fragments, " ")

RECURSIVE JoinSQLFragments(_)
JoinSQLFragments(fragments) ==
  IF fragments = <<>> THEN <<>>
  ELSE LET rest == JoinSQLFragments(Tail(fragments))
       IN IF Head(fragments) = <<>> THEN rest
          ELSE IF rest = <<>> THEN Head(fragments)
          ELSE Head(fragments) \o <<" ">> \o rest

\* rejectInvalidOptions(method, dialect, supportable, supported, options):
\* TRUE when the call is rejected.
RejectInvalidOptions(supportable, supported, options) ==
  \E key \in OptKeys(options) : key \notin supported

EMPTY_SET == {}


\* generateIndexName(table, {fields}): <tableName>_<field1>_..._<fieldN>
RECURSIVE JoinFields(_)
JoinFields(fields) ==
  IF fields = <<>> THEN <<>> ELSE <<"_">> \o Head(fields) \o JoinFields(Tail(fields))

GenerateIndexName(table, fields) == table.tableName \o JoinFields(fields)

(***************************************************************************)
(* Input sets.                                                             *)
(***************************************************************************)
TableNames == {<<"t">>, <<"u", "\"">>}

Schemas == {<<"p">>, <<"D">>, <<"a">>}

Tables == {[tableName |-> n, schema |-> s] : n \in TableNames, s \in Schemas \cup {NoSchema}}

Flags == {"true", "false"}

(***************************************************************************)
(* Postgres query generator.                                               *)
(***************************************************************************)
CREATE_DATABASE_QUERY_SUPPORTABLE_OPTIONS == {"charset", "collate", "ctype", "encoding", "template"}

CREATE_DATABASE_QUERY_SUPPORTED_OPTIONS == {"collate", "ctype", "encoding", "template"}

INSERT_QUERY_SUPPORTED_OPTIONS ==
  {"conflictWhere", "exception", "ignoreDuplicates", "returning", "updateOnDuplicate"}

INSERT_QUERY_SUPPORTABLE_OPTIONS == INSERT_QUERY_SUPPORTED_OPTIONS

\* An optional "KEYWORD = <escaped value>" clause of createDatabaseQuery.
PgDatabaseClause(keyword, value) ==
  IF Truthy(value) THEN <<keyword>> \o EscapeLiteral(value) ELSE <<>>

PgDatabaseClauseSteps(value) == IF Truthy(value) THEN <<"escape">> ELSE <<>>

\* internals.getTechnicalDatabaseNames() and getTechnicalSchemaNames()
PgTechnicalDatabaseNames == <<"postgres">>

PgTechnicalSchemaNames == <<"information_schema", "tiger", "tiger_data", "topology">>

\* options.skip when options && Array.isArray(options?.skip), else nothing.
\* A skip value is [isArray, items].
SkipList(options) ==
  IF options.given /\ "skip" \in DOMAIN options.obj /\ options.obj["skip"].isArray
  THEN options.obj["skip"].items
  ELSE <<>>

\* options?.schema
SchemaFilter(options) ==
  IF options.given /\ "schema" \in DOMAIN options.obj THEN options.obj["schema"] ELSE Undefined

\* NOT IN (${names.map(name => this.escape(name)).join(', ')})
NotInList(names) ==
  <<"NOT IN (">> \o JoinWith([i \in 1..Len(names) |-> EscapeLiteral(names[i])], ", ") \o <<")">>

ListSteps(names) == [i \in 1..Len(names) |-> "escape"] \o <<"joinSQLFragments">>

\* listDatabasesQuery where getTechnicalDatabaseNames() returns technicalNames.
PgListDatabasesQueryOver(technicalNames, options) ==
  LET databasesToSkip == technicalNames \o SkipList(options)
  IN Ok(JoinSQLFragments(<<
          <<"SELECT datname AS \"name\" FROM pg_database">>,
          <<"WHERE datistemplate = false AND datname ">> \o NotInList(databasesToSkip) >>),
        ListSteps(databasesToSkip))

PgListDatabasesQuery(options) == PgListDatabasesQueryOver(PgTechnicalDatabaseNames, options)

\* listSchemasQuery where getTechnicalSchemaNames() returns technicalNames.
PgListSchemasQueryOver(technicalNames, options) ==
  LET schemasToSkip == <<"public">> \o technicalNames \o SkipList(options)
  IN Ok(JoinSQLFragments(<<
          <<"SELECT schema_name AS \"schema\" FROM information_schema.schemata">>,
          <<"WHERE schema_name !~ E'^pg_' AND schema_name ">> \o NotInList(schemasToSkip) >>),
        ListSteps(schemasToSkip))

PgListSchemasQuery(options) == PgListSchemasQueryOver(PgTechnicalSchemaNames, options)

PgListTablesQuery(options) ==
  Ok(JoinSQLFragments(<<
       <<"SELECT table_name AS \"tableName\", table_schema AS \"schema\"">>,
       <<"FROM information_schema.tables WHERE table_type = 'BASE TABLE' AND table_name != 'spatial_ref_sys'">>,
       IF Truthy(SchemaFilter(options))
       THEN <<"AND table_schema = ">> \o EscapeLiteral(SchemaFilter(options))
       ELSE <<"AND table_schema !~ E'^pg_' AND table_schema ">> \o NotInList(PgTechnicalSchemaNames),
       <<"ORDER BY table_schema, table_name">> >>),
     IF Truthy(SchemaFilter(options)) THEN ListSteps(<<"schema">>)
     ELSE ListSteps(PgTechnicalSchemaNames))

PgCreateDatabaseQuery(database, options) ==
  IF options.given /\ RejectInvalidOptions(CREATE_DATABASE_QUERY_SUPPORTABLE_OPTIONS,
                                           CREATE_DATABASE_QUERY_SUPPORTED_OPTIONS, options)
  THEN Fail(ConfigurationError, <<"rejectInvalidOptions">>)
  ELSE Ok(JoinSQLFragments(<<
            <<"CREATE DATABASE ">> \o QuoteIdentifier(database),
            PgDatabaseClause("ENCODING = ", OptGet(options, "encoding")),
            PgDatabaseClause("LC_COLLATE = ", OptGet(options, "collate")),
            PgDatabaseClause("LC_CTYPE = ", OptGet(options, "ctype")),
            PgDatabaseClause("TEMPLATE = ", OptGet(options, "template")) >>),
          (IF options.given THEN <<"rejectInvalidOptions">> ELSE <<>>)
            \o <<"quoteIdentifier">>
            \o PgDatabaseClauseSteps(OptGet(options, "encoding"))
            \o PgDatabaseClauseSteps(OptGet(options, "collate"))
            \o PgDatabaseClauseSteps(OptGet(options, "ctype"))
            \o PgDatabaseClauseSteps(OptGet(options, "template"))
            \o <<"joinSQLFragments">>)

\* A mutant of PgRenameTableBranch: the changeSchema opt-in is not required.
PgRenameTableBranch_NoOptIn(beforeTable, afterTable, options) ==
  IF beforeTable.schema # afterTable.schema
  THEN IF beforeTable.tableName # afterTable.tableName THEN "renameAndMove"
       ELSE "setSchema"
  ELSE "rename"

\* A mutant of PgRenameTableBranch: a move that also renames is let through.
PgRenameTableBranch_MoveAndRename(beforeTable, afterTable, options) ==
  IF beforeTable.schema # afterTable.schema
  THEN IF ~Truthy(OptGet(options, "changeSchema")) THEN "needsChangeSchema"
       ELSE "setSchema"
  ELSE "rename"

\* The branch that renameTableQuery takes.
PgRenameTableBranch(beforeTable, afterTable, options) ==
  IF beforeTable.schema # afterTable.schema
  THEN IF ~Truthy(OptGet(options, "changeSchema")) THEN "needsChangeSchema"
       ELSE IF beforeTable.tableName # afterTable.tableName THEN "renameAndMove"
       ELSE "setSchema"
  ELSE "rename"

PgRenameTableQuery(beforeTableName, afterTableName, options) ==
  LET beforeTable == ExtractTableDetails(beforeTableName, "postgres")
      afterTable == ExtractTableDetails(afterTableName, "postgres")
      extracted == <<"extractTableDetails", "extractTableDetails">>
      branch == PgRenameTableBranch(beforeTable, afterTable, options)
  IN CASE branch = "needsChangeSchema" ->
            Fail("To move a table between schemas, you must set options.changeSchema to true.",
                 extracted)
       [] branch = "renameAndMove" ->
            Fail("Renaming a table and moving it to a different schema is not supported by postgres.",
                 extracted)
       [] branch = "setSchema" ->
            Ok(<<"ALTER TABLE ">> \o QuoteTable(beforeTableName)
                 \o <<" SET SCHEMA ">> \o QuoteIdentifier(afterTable.schema),
               extracted \o <<"quoteTable", "quoteIdentifier">>)
       [] OTHER ->
            Ok(<<"ALTER TABLE ">> \o QuoteTable(beforeTableName)
                 \o <<" RENAME TO ">> \o QuoteIdentifier(afterTable.tableName),
               extracted \o <<"quoteTable", "quoteIdentifier">>)

PgTruncateTableQuery(tableName, options) ==
  Ok(JoinSQLFragments(<<
       <<"TRUNCATE ">> \o QuoteTable(tableName),
       IF Truthy(OptGet(options, "restartIdentity")) THEN <<"RESTART IDENTITY">> ELSE <<>>,
       IF Truthy(OptGet(options, "cascade")) THEN <<"CASCADE">> ELSE <<>> >>),
     <<"quoteTable", "joinSQLFragments">>)

\* A mutant of RemoveIndexName: the name of a field list is derived from
\* the schema-qualified table name.
RemoveIndexName_SchemaInName(table, indexNameOrAttributes) ==
  IF indexNameOrAttributes.isArray
  THEN GenerateIndexName([table EXCEPT !.tableName = table.schema \o <<"_">> \o @],
                         indexNameOrAttributes.fields)
  ELSE indexNameOrAttributes.name

\* The index name that removeIndexQuery resolves.
\* indexNameOrAttributes is [isArray, name, fields]: a string name or a field list.
RemoveIndexName(table, indexNameOrAttributes) ==
  IF indexNameOrAttributes.isArray
  THEN GenerateIndexName(table, indexNameOrAttributes.fields)
  ELSE indexNameOrAttributes.name

\* A mutant of QualifiedIndexName: the index is qualified by the default schema.
QualifiedIndexName_DefaultSchema(table, indexName) ==
  QuoteIdentifier(DefaultSchema("postgres")) \o <<".">> \o QuoteIdentifier(indexName)

\* `${this.quoteIdentifier(table.schema)}.${this.quoteIdentifier(indexName)}`
QualifiedIndexName(table, indexName) ==
  QuoteIdentifier(table.schema) \o <<".">> \o QuoteIdentifier(indexName)

PgRemoveIndexQuery(tableName, indexNameOrAttributes, options) ==
  IF Truthy(OptGet(options, "cascade")) /\ Truthy(OptGet(options, "concurrently"))
  THEN Fail("Cannot specify both concurrently and cascade options in removeIndexQuery for postgres dialect",
            <<>>)
  ELSE LET table == ExtractTableDetails(tableName, "postgres")
           indexName == RemoveIndexName(table, indexNameOrAttributes)
       IN Ok(JoinSQLFragments(<<
               <<"DROP INDEX">>,
               IF Truthy(OptGet(options, "concurrently")) THEN <<"CONCURRENTLY">> ELSE <<>>,
               IF Truthy(OptGet(options, "ifExists")) THEN <<"IF EXISTS">> ELSE <<>>,
               QualifiedIndexName(table, indexName),
               IF Truthy(OptGet(options, "cascade")) THEN <<"CASCADE">> ELSE <<>> >>),
             <<"extractTableDetails">>
               \o (IF indexNameOrAttributes.isArray THEN <<"generateIndexName">> ELSE <<>>)
               \o <<"quoteIdentifier", "quoteIdentifier", "joinSQLFragments">>)

\* A mutant of PgShowIndexesQuery: the schema of the table is not a condition.
PgShowIndexesQuery_AnySchema(tableName) ==
  LET table == ExtractTableDetails(tableName, "postgres")
  IN Ok(JoinSQLFragments(<<
          <<"SELECT i.relname AS name, ix.indisprimary AS primary, ix.indisunique AS unique, ix.indkey[:ix.indnkeyatts-1] AS index_fields,">>,
          <<"ix.indkey[ix.indnkeyatts:] AS include_fields, array_agg(a.attnum) as column_indexes, array_agg(a.attname) AS column_names,">>,
          <<"pg_get_indexdef(ix.indexrelid) AS definition FROM pg_class t, pg_class i, pg_index ix, pg_attribute a , pg_namespace s">>,
          <<"WHERE t.oid = ix.indrelid AND i.oid = ix.indexrelid AND a.attrelid = t.oid AND">>,
          <<"t.relkind = 'r' and ", "t.relname = ">> \o EscapeString(table.tableName),
          <<"GROUP BY i.relname, ix.indexrelid, ix.indisprimary, ix.indisunique, ix.indkey, ix.indnkeyatts ORDER BY i.relname;">> >>),
        <<"extractTableDetails", "escape", "joinSQLFragments">>)

PgShowIndexesQuery(tableName) ==
  LET table == ExtractTableDetails(tableName, "postgres")
  IN Ok(JoinSQLFragments(<<
          <<"SELECT i.relname AS name, ix.indisprimary AS primary, ix.indisunique AS unique, ix.indkey[:ix.indnkeyatts-1] AS index_fields,">>,
          <<"ix.indkey[ix.indnkeyatts:] AS include_fields, array_agg(a.attnum) as column_indexes, array_agg(a.attname) AS column_names,">>,
          <<"pg_get_indexdef(ix.indexrelid) AS definition FROM pg_class t, pg_class i, pg_index ix, pg_attribute a , pg_namespace s">>,
          <<"WHERE t.oid = ix.indrelid AND i.oid = ix.indexrelid AND a.attrelid = t.oid AND">>,
          <<"t.relkind = 'r' and ", "t.relname = ">> \o EscapeString(table.tableName),
          <<"AND s.oid = t.relnamespace AND ", "s.nspname = ">> \o EscapeString(table.schema),
          <<"GROUP BY i.relname, ix.indexrelid, ix.indisprimary, ix.indisunique, ix.indkey, ix.indnkeyatts ORDER BY i.relname;">> >>),
        <<"extractTableDetails", "escape", "escape", "joinSQLFragments">>)

(***************************************************************************)
(* Db2 query generator.                                                    *)
(***************************************************************************)
DROP_SCHEMA_QUERY_SUPPORTABLE_OPTIONS == {"cascade", "ifExists"}

RENAME_TABLE_QUERY_SUPPORTABLE_OPTIONS == {"changeSchema"}

TRUNCATE_TABLE_QUERY_SUPPORTABLE_OPTIONS == {"cascade", "restartIdentity"}

\* internals.getTechnicalSchemaNames()
Db2TechnicalSchemaNames == <<"ERRORSCHEMA", "NULLID", "SQLJ">>

\* listSchemasQuery where getTechnicalSchemaNames() returns technicalNames.
Db2ListSchemasQueryOver(technicalNames, options) ==
  LET schemasToSkip == technicalNames \o SkipList(options)
  IN Ok(JoinSQLFragments(<<
          <<"SELECT SCHEMANAME AS \"schema\" FROM SYSCAT.SCHEMATA">>,
          <<"WHERE SCHEMANAME NOT LIKE 'SYS%' AND SCHEMANAME ">> \o NotInList(schemasToSkip) >>),
        ListSteps(schemasToSkip))

Db2ListSchemasQuery(options) == Db2ListSchemasQueryOver(Db2TechnicalSchemaNames, options)

\* The lists that the internals of the dialects own on a fresh generator.
FreshTechnicalNames ==
  [pgDatabases |-> PgTechnicalDatabaseNames, pgSchemas |-> PgTechnicalSchemaNames,
   db2Schemas |-> Db2TechnicalSchemaNames]

\* A mutant of TechnicalNamesAfter: the skip list is pushed onto the list
\* that the internals returned.
TechnicalNamesAfter_Pushed(technicalNames, options) == technicalNames \o SkipList(options)

\* The list of the internals after a list call: the skip list is appended to
\* a new array ([...names, ...options.skip], or a push onto the literal
\* ['public', ...names]), so the list itself is as it was.
TechnicalNamesAfter(technicalNames, options) == technicalNames

Db2ListTablesQuery(options) ==
  Ok(JoinSQLFragments(<<
       <<"SELECT TABNAME AS \"tableName\",">>,
       <<"TRIM(TABSCHEMA) AS \"schema\"">>,
       <<"FROM SYSCAT.TABLES WHERE TYPE = 'T'">>,
       IF Truthy(SchemaFilter(options))
       THEN <<"AND TABSCHEMA = ">> \o EscapeLiteral(SchemaFilter(options))
       ELSE <<"AND TABSCHEMA NOT LIKE 'SYS%' AND TABSCHEMA ">> \o NotInList(Db2TechnicalSchemaNames),
       <<"ORDER BY TABSCHEMA, TABNAME">> >>),
     IF Truthy(SchemaFilter(options)) THEN ListSteps(<<"schema">>)
     ELSE ListSteps(Db2TechnicalSchemaNames))

Db2DropSchemaQuery(schemaName, options) ==
  IF options.given /\ RejectInvalidOptions(DROP_SCHEMA_QUERY_SUPPORTABLE_OPTIONS, EMPTY_SET, options)
  THEN Fail(ConfigurationError, <<"rejectInvalidOptions">>)
  ELSE Ok(<<"DROP SCHEMA ">> \o QuoteIdentifier(schemaName) \o <<" RESTRICT">>,
          (IF options.given THEN <<"rejectInvalidOptions">> ELSE <<>>) \o <<"quoteIdentifier">>)

\* A mutant of Db2RenameTableQuery: the table details are extracted before
\* the options are validated.
Db2RenameTableQuery_ExtractsFirst(beforeTableName, afterTableName, options) ==
  LET beforeTable == ExtractTableDetails(beforeTableName, "db2")
      afterTable == ExtractTableDetails(afterTableName, "db2")
      extracted == <<"extractTableDetails", "extractTableDetails">>
      done == extracted \o (IF options.given THEN <<"rejectInvalidOptions">> ELSE <<>>)
  IN IF options.given /\ RejectInvalidOptions(RENAME_TABLE_QUERY_SUPPORTABLE_OPTIONS, EMPTY_SET, options)
     THEN Fail(ConfigurationError, done)
     ELSE IF beforeTable.schema # afterTable.schema
     THEN Fail("Moving tables between schemas is not supported by db2 dialect.", done)
     ELSE Ok(<<"RENAME TABLE ">> \o QuoteTable(beforeTableName)
               \o <<" TO ">> \o QuoteIdentifier(afterTable.tableName),
             done \o <<"quoteTable", "quoteIdentifier">>)

\* A mutant of Db2RenameTableQuery: the schemas are compared as given,
\* before an absent schema is replaced by the default schema.
Db2RenameTableQuery_RawSchemas(beforeTableName, afterTableName, options) ==
  IF options.given /\ RejectInvalidOptions(RENAME_TABLE_QUERY_SUPPORTABLE_OPTIONS, EMPTY_SET, options)
  THEN Fail(ConfigurationError, <<"rejectInvalidOptions">>)
  ELSE LET afterTable == ExtractTableDetails(afterTableName, "db2")
           done == (IF options.given THEN <<"rejectInvalidOptions">> ELSE <<>>)
                     \o <<"extractTableDetails", "extractTableDetails">>
       IN IF beforeTableName.schema # afterTableName.schema
          THEN Fail("Moving tables between schemas is not supported by db2 dialect.", done)
          ELSE Ok(<<"RENAME TABLE ">> \o QuoteTable(beforeTableName)
                    \o <<" TO ">> \o QuoteIdentifier(afterTable.tableName),
                  done \o <<"quoteTable", "quoteIdentifier">>)

Db2RenameTableQuery(beforeTableName, afterTableName, options) ==
  IF options.given /\ RejectInvalidOptions(RENAME_TABLE_QUERY_SUPPORTABLE_OPTIONS, EMPTY_SET, options)
  THEN Fail(ConfigurationError, <<"rejectInvalidOptions">>)
  ELSE LET beforeTable == ExtractTableDetails(beforeTableName, "db2")
           afterTable == ExtractTableDetails(afterTableName, "db2")
           done == (IF options.given THEN <<"rejectInvalidOptions">> ELSE <<>>)
                     \o <<"extractTableDetails", "extractTableDetails">>
       IN IF beforeTable.schema # afterTable.schema
          THEN Fail("Moving tables between schemas is not supported by db2 dialect.", done)
          ELSE Ok(<<"RENAME TABLE ">> \o QuoteTable(beforeTableName)
                    \o <<" TO ">> \o QuoteIdentifier(afterTable.tableName),
                  done \o <<"quoteTable", "quoteIdentifier">>)

\* A mutant of Db2TruncateTableQuery: the supportable options are passed as
\* the supported ones.
Db2TruncateTableQuery_SupportableAsSupported(tableName, options) ==
  IF options.given /\ RejectInvalidOptions(TRUNCATE_TABLE_QUERY_SUPPORTABLE_OPTIONS,
                                           TRUNCATE_TABLE_QUERY_SUPPORTABLE_OPTIONS, options)
  THEN Fail(ConfigurationError, <<"rejectInvalidOptions">>)
  ELSE Ok(<<"TRUNCATE TABLE ">> \o QuoteTable(tableName) \o <<" IMMEDIATE">>,
          (IF options.given THEN <<"rejectInvalidOptions">> ELSE <<>>) \o <<"quoteTable">>)

Db2TruncateTableQuery(tableName, options) ==
  IF options.given /\ RejectInvalidOptions(TRUNCATE_TABLE_QUERY_SUPPORTABLE_OPTIONS, EMPTY_SET, options)
  THEN Fail(ConfigurationError, <<"rejectInvalidOptions">>)
  ELSE Ok(<<"TRUNCATE TABLE ">> \o QuoteTable(tableName) \o <<" IMMEDIATE">>,
          (IF options.given THEN <<"rejectInvalidOptions">> ELSE <<>>) \o <<"quoteTable">>)

\* `Constraint type ${type} is not supported` for the types of the input set.
ConstraintTypeError(type) ==
  IF type = "INDEX" THEN "Constraint type INDEX is not supported"
  ELSE IF type = "unique" THEN "Constraint type unique is not supported"
  ELSE "Constraint type is not supported"

\* A mutant of Db2GetConstraintType: the letters of CHECK and UNIQUE are
\* exchanged.
Db2GetConstraintType_Exchanged(type) ==
  CASE type = "CHECK" -> [thrown |-> FALSE, letter |-> "U", error |-> ""]
    [] type = "FOREIGN KEY" -> [thrown |-> FALSE, letter |-> "F", error |-> ""]
    [] type = "PRIMARY KEY" -> [thrown |-> FALSE, letter |-> "P", error |-> ""]
    [] type = "UNIQUE" -> [thrown |-> FALSE, letter |-> "K", error |-> ""]
    [] OTHER -> [thrown |-> TRUE, letter |-> "", error |-> ConstraintTypeError(type)]

\* #getConstraintType(type): the switch and its throwing default.
Db2GetConstraintType(type) ==
  CASE type = "CHECK" -> [thrown |-> FALSE, letter |-> "K", error |-> ""]
    [] type = "FOREIGN KEY" -> [thrown |-> FALSE, letter |-> "F", error |-> ""]
    [] type = "PRIMARY KEY" -> [thrown |-> FALSE, letter |-> "P", error |-> ""]
    [] type = "UNIQUE" -> [thrown |-> FALSE, letter |-> "U", error |-> ""]
    [] OTHER -> [thrown |-> TRUE, letter |-> "", error |-> ConstraintTypeError(type)]

\* The CASE c.TYPE expression of the SELECT list, kept as tokens: WHEN, the
\* quoted letter, THEN, the quoted constraint type.
Db2ConstraintTypeCase ==
  <<"CASE c.TYPE",
    " ", "WHEN", " ", "'", "P", "'", " ", "THEN", " ", "'", "PRIMARY KEY", "'",
    " ", "WHEN", " ", "'", "F", "'", " ", "THEN", " ", "'", "FOREIGN KEY", "'",
    " ", "WHEN", " ", "'", "K", "'", " ", "THEN", " ", "'", "CHECK", "'",
    " ", "WHEN", " ", "'", "U", "'", " ", "THEN", " ", "'", "UNIQUE", "'",
    " ELSE NULL END AS \"constraintType\",">>

Db2ShowConstraintsQuery(tableName, options) ==
  LET table == ExtractTableDetails(tableName, "db2")
      columnName == OptGet(options, "columnName")
      constraintName == OptGet(options, "constraintName")
      constraintType == OptGet(options, "constraintType")
      type == Db2GetConstraintType(constraintType)
      steps == <<"extractTableDetails", "escape", "escape">>
                 \o (IF Truthy(columnName) THEN <<"escape">> ELSE <<>>)
                 \o (IF Truthy(constraintName) THEN <<"escape">> ELSE <<>>)
  IN
  IF Truthy(constraintType) /\ type.thrown
  THEN Fail(type.error, Append(steps, "getConstraintType"))
  ELSE Ok(JoinSQLFragments(<<
            <<"SELECT TRIM(c.TABSCHEMA) AS \"constraintSchema\",">>,
            <<"c.CONSTNAME AS \"constraintName\",">>,
            Db2ConstraintTypeCase,
            <<"TRIM(c.TABSCHEMA) AS \"tableSchema\",">>,
            <<"c.TABNAME AS \"tableName\",">>,
            <<"k.COLNAME AS \"columnNames\",">>,
            <<"TRIM(r.REFTABSCHEMA) AS \"referencedTableSchema\",">>,
            <<"r.REFTABNAME AS \"referencedTableName\",">>,
            <<"fk.COLNAME AS \"referencedColumnNames\",">>,
            <<"CASE r.DELETERULE WHEN 'A' THEN 'NO ACTION' WHEN 'C' THEN 'CASCADE' WHEN 'N' THEN 'SET NULL' WHEN 'R' THEN 'RESTRICT' ELSE NULL END AS \"deleteAction\",">>,
            <<"CASE r.UPDATERULE WHEN 'A' THEN 'NO ACTION' WHEN 'R' THEN 'RESTRICT' ELSE NULL END AS \"updateAction\",">>,
            <<"ck.TEXT AS \"definition\"">>,
            <<"FROM SYSCAT.TABCONST c">>,
            <<"LEFT JOIN SYSCAT.REFERENCES r ON c.CONSTNAME = r.CONSTNAME AND c.TABNAME = r.TABNAME AND c.TABSCHEMA = r.TABSCHEMA">>,
            <<"LEFT JOIN SYSCAT.KEYCOLUSE k ON c.CONSTNAME = k.CONSTNAME AND c.TABNAME = k.TABNAME AND c.TABSCHEMA = k.TABSCHEMA">>,
            <<"LEFT JOIN SYSCAT.KEYCOLUSE fk ON r.REFKEYNAME = fk.CONSTNAME">>,
            <<"LEFT JOIN SYSCAT.CHECKS ck ON c.CONSTNAME = ck.CONSTNAME AND c.TABNAME = ck.TABNAME AND c.TABSCHEMA = ck.TABSCHEMA">>,
            <<"WHERE c.TABNAME = ">> \o EscapeString(table.tableName),
            <<"AND c.TABSCHEMA = ">> \o EscapeString(table.schema),
            IF Truthy(columnName) THEN <<"AND k.COLNAME = ">> \o EscapeLiteral(columnName) ELSE <<>>,
            IF Truthy(constraintName)
            THEN <<"AND c.CONSTNAME = ">> \o EscapeLiteral(constraintName) ELSE <<>>,
            IF Truthy(constraintType)
            THEN <<"AND c.TYPE = ">> \o EscapeLiteral(type.letter) ELSE <<>>,
            <<"ORDER BY c.CONSTNAME, k.COLSEQ, fk.COLSEQ">> >>),
          steps \o (IF Truthy(constraintType) THEN <<"getConstraintType", "escape">> ELSE <<>>)
            \o <<"joinSQLFragments">>)

\* String.prototype.toLowerCase on the index types of the input set.
ToLowerCase(s) ==
  IF s \in {"UNIQUE", "Unique", "unique"} THEN "unique"
  ELSE IF s \in {"FULLTEXT", "fulltext"} THEN "fulltext"
  ELSE s

\* generateTransactionId(): random is the value of randomBytes(10).toString('hex').
Db2GenerateTransactionId(random) == Ok(<<random>>, <<"randomBytes">>)

Db2IncludeError == "DB2 does not support non-unique indexes with INCLUDE syntax."

\* A mutant of Db2AddIndexQuery: the index type is compared without lower-casing.
Db2AddIndexQuery_CaseSensitiveType(tableOrModel, options) ==
  LET unique == IF "unique" \in DOMAIN options THEN options["unique"] ELSE Undefined
      type == IF "type" \in DOMAIN options THEN options["type"] ELSE Undefined
  IN IF "include" \in DOMAIN options /\ ~Truthy(unique) /\ type # "unique"
     THEN Fail(Db2IncludeError, <<>>)
     ELSE Delegated(<<"super.addIndexQuery">>)

\* options is the index options object: a function from its keys to values.
Db2AddIndexQuery(tableOrModel, options) ==
  LET unique == IF "unique" \in DOMAIN options THEN options["unique"] ELSE Undefined
      type == IF "type" \in DOMAIN options THEN options["type"] ELSE Undefined
      \* options.type?.toLowerCase()
      lowered == IF type \in {Undefined, Null} THEN Undefined ELSE ToLowerCase(type)
  IN IF "include" \in DOMAIN options /\ ~Truthy(unique) /\ lowered # "unique"
     THEN Fail(Db2IncludeError, <<>>)
     ELSE Delegated(<<"super.addIndexQuery">>)


(***************************************************************************)
(* Postgres insertQuery.                                                   *)
(*                                                                         *)
(* value is [kind, entries]: kind "object" with the ordered entries        *)
(* <<[key, val]>> of Object.entries, or a non-mapping kind.                *)
(* An attribute list is the ordered entries [key, columnName,              *)
(* autoIncrement] of the attribute hash or of the model's physical         *)
(* attributes.  tableName carries isModel and physicalAttributes.          *)
(***************************************************************************)
\* removeNullishValuesFromHash(hash, omitNull)
RemoveNullishValuesFromHash(entries, omitNull) ==
  IF omitNull THEN SelectSeq(entries, LAMBDA e : e.val \notin {Null, Undefined}) ELSE entries

\* The attributeMap of insertQuery: attributeMap.set(attribute?.columnName ?? column, attribute)
RECURSIVE BuildAttributeMap(_, _)
BuildAttributeMap(attributes, map) ==
  IF attributes = <<>> THEN map
  ELSE LET attribute == Head(attributes)
           column == IF attribute.columnName = Undefined THEN attribute.key ELSE attribute.columnName
       IN BuildAttributeMap(Tail(attributes),
            [c \in DOMAIN map \cup {column} |-> IF c = column THEN attribute ELSE map[c]])

\* attributeMap.get(column)?.autoIncrement
AttributeAutoIncrement(attributeMap, column) ==
  IF column \in DOMAIN attributeMap THEN attributeMap[column].autoIncrement ELSE Undefined

\* The positional marker that the dialect's bindParam(bind) returns for the n-th value.
BindMarker(n) == <<"$sequelize_1", "$sequelize_2", "$sequelize_3", "$sequelize_4">>[n]

\* escape(rowValue, {...insertOptions, type}): through the bind function when
\* one is in effect, otherwise the literal.  bindParam is "internal" (the
\* dialect's bindParam(bind)), "fn" (a caller function), "false" or "undefined".
EscapeValue(value, bindParam, bind) ==
  IF bindParam = "internal" THEN [sql |-> <<BindMarker(Len(bind) + 1)>>, bind |-> Append(bind, value)]
  ELSE IF bindParam = "fn" THEN [sql |-> <<"?">>, bind |-> bind]
  ELSE [sql |-> EscapeLiteral(value), bind |-> bind]

\* A mutant of InsertValueKind: every null becomes DEFAULT, whatever the column.
InsertValueKind_DefaultForAnyNull(attributeMap, column, rowValue) ==
  IF rowValue \in {Null, Undefined} THEN "default"
  ELSE "escape"

\* What the insertQuery loop does with one entry: the DEFAULT keyword for a
\* nullish value of an autoIncrement column, nothing for undefined, the
\* escaped value otherwise.
InsertValueKind(attributeMap, column, rowValue) ==
  IF Truthy(AttributeAutoIncrement(attributeMap, column)) /\ rowValue \in {Null, Undefined}
  THEN "default"
  ELSE IF rowValue = Undefined THEN "skip"
  ELSE "escape"

\* The loop over Object.entries(valueHash) that fills valueMap.
RECURSIVE InsertValueMap(_, _, _, _)
InsertValueMap(entries, attributeMap, bindParam, acc) ==
  IF entries = <<>> THEN acc
  ELSE LET column == Head(entries).key
           rowValue == Head(entries).val
           kind == InsertValueKind(attributeMap, column, rowValue)
       IN IF kind = "default"
          THEN InsertValueMap(Tail(entries), attributeMap, bindParam,
                 [acc EXCEPT !.valueMap = Append(@, [column |-> column, sql |-> <<"DEFAULT">>])])
          ELSE IF kind = "skip"
          THEN InsertValueMap(Tail(entries), attributeMap, bindParam, acc)
          ELSE LET escaped == EscapeValue(rowValue, bindParam, acc.bind)
               IN InsertValueMap(Tail(entries), attributeMap, bindParam,
                    [valueMap |-> Append(acc.valueMap, [column |-> column, sql |-> escaped.sql]),
                     bind |-> escaped.bind,
                     steps |-> Append(acc.steps, "escape")])

\* internals.getReturnFields(insertOptions, attributeMap): the explicit list,
\* or all columns.
GetReturnFields(returning) ==
  IF returning = "list" THEN <<QuoteIdentifier(<<"i", "d">>)>> ELSE << <<"*">> >>

\* internals.generateUpdateOnDuplicateKeysFragment(insertOptions)
GenerateUpdateOnDuplicateKeysFragment == <<"ON CONFLICT DO UPDATE SET">>

\* The attributes that fill attributeMap: the model's physical attributes,
\* else the attribute hash.
InsertAttributes(tableName, attributeHash) ==
  IF tableName.isModel THEN tableName.physicalAttributes
  ELSE IF attributeHash.given THEN attributeHash.entries
  ELSE <<>>

\* A mutant of InsertModesConflict: the check is skipped in the exception mode.
InsertModesConflict_NotInExceptionMode(options) ==
  /\ Truthy(OptGet(options, "ignoreDuplicates"))
  /\ Truthy(OptGet(options, "updateOnDuplicate"))
  /\ ~Truthy(OptGet(options, "exception"))

\* options.ignoreDuplicates && options.updateOnDuplicate
InsertModesConflict(options) ==
  /\ Truthy(OptGet(options, "ignoreDuplicates"))
  /\ Truthy(OptGet(options, "updateOnDuplicate"))

\* typeof value
TypeOf(value) == IF value.kind \in {"object", "null", "array"} THEN "object" ELSE value.kind

\* A mutant of InsertValueIsInvalid: an array passes for a mapping.
InsertValueIsInvalid_ArraysPass(value) ==
  TypeOf(value) # "object" \/ value.kind \in {"null", "undefined"}

\* typeof value !== 'object' || value == null || Array.isArray(value)
InsertValueIsInvalid(value) ==
  TypeOf(value) # "object" \/ value.kind \in {"null", "undefined"} \/ value.kind = "array"

IgnoreAndUpdateError == "Options ignoreDuplicates and updateOnDuplicate cannot be used together"

InvalidValueError == "Invalid value. Expected an object."

\* A mutant of PgExceptionCleanup: the batch leaves the routine behind.
PgExceptionCleanup_None == <<>>

\* The last fragment of the exception-mode batch.
PgExceptionCleanup == <<"DROP FUNCTION IF EXISTS pg_temp.testfunc()">>

\* A mutant of PgInsertDelimiter: the delimiter is the same for every call.
PgInsertDelimiter_Fixed(random) == <<"$func_", "$">>

\* const delimiter = $func_${randomBytes(8).toString('hex')}$
PgInsertDelimiter(random) == <<"$func_", random, "$">>

\* A mutant of PgInsertBindParam: the exception mode leaves the bind
\* function in effect.
PgInsertBindParam_KeptInExceptionMode(options, config) ==
  IF config.prependSearchPath \/ Truthy(OptGet(options, "searchPath"))
  THEN Undefined
  ELSE IF OptGet(options, "bindParam") = Undefined THEN "internal"
  ELSE OptGet(options, "bindParam")

\* insertOptions.bindParam after the search-path / exception reset; config
\* is this.options.omitNull and dialectOptions.prependSearchPath.
PgInsertBindParam(options, config) ==
  IF config.prependSearchPath \/ Truthy(OptGet(options, "searchPath"))
       \/ Truthy(OptGet(options, "exception"))
  THEN Undefined
  ELSE IF OptGet(options, "bindParam") = Undefined THEN "internal"
  ELSE OptGet(options, "bindParam")

\* A mutant of NoColumnRemains: the DEFAULT VALUES return is never taken.
NoColumnRemains_Never(valueMap) == FALSE

\* valueMap.size === 0
NoColumnRemains(valueMap) == Len(valueMap) = 0

\* What insertQuery returns once the loop has filled valueMap and bind:
\* filled is [valueMap, bind, steps]; random is the value of
\* randomBytes(8).toString('hex').
PgInsertStatement(tableName, options, config, random, filled) ==
  LET bindParam == PgInsertBindParam(options, config)
      valueMap == filled.valueMap
      returnFields == GetReturnFields(OptGet(options, "returning"))
      returningFragment ==
        IF Truthy(OptGet(options, "returning"))
        THEN JoinSQLFragments(<< <<"RETURNING">>, JoinWith(returnFields, ", ") >>)
        ELSE <<>>
      bind == IF bindParam \in {"internal", "fn"}
              THEN [given |-> TRUE, values |-> filled.bind] ELSE NoBind
      rowFragment == JoinWith([i \in 1..Len(valueMap) |-> valueMap[i].sql], ",")
      columnFragment ==
        JoinWith([i \in 1..Len(valueMap) |-> QuoteIdentifier(<<valueMap[i].column>>)], ",")
      conflictFragment == IF Truthy(OptGet(options, "updateOnDuplicate"))
                          THEN GenerateUpdateOnDuplicateKeysFragment ELSE <<>>
      ignoreFragment == IF Truthy(OptGet(options, "ignoreDuplicates"))
                        THEN <<"ON CONFLICT DO NOTHING">> ELSE <<>>
      delimiter == PgInsertDelimiter(random)
      quoted == [i \in 1..Len(valueMap) |-> "quoteIdentifier"]
  IN
  IF NoColumnRemains(valueMap)
  THEN OkInsert(JoinSQLFragments(<<
                  <<"INSERT INTO">>,
                  QuoteTable(tableName),
                  <<"DEFAULT VALUES">>,
                  returningFragment >>),
                bind, filled.steps \o <<"getReturnFields", "quoteTable", "joinSQLFragments">>,
                valueMap)
  ELSE IF Truthy(OptGet(options, "exception"))
  THEN OkInsert(JoinSQLFragments(<<
                  <<"CREATE OR REPLACE FUNCTION pg_temp.testfunc(OUT response ">>
                    \o QuoteTable(tableName)
                    \o <<", OUT sequelize_caught_exception text) RETURNS RECORD AS">>,
                  delimiter,
                  <<"BEGIN INSERT INTO">>,
                  QuoteTable(tableName),
                  <<"(">> \o columnFragment \o <<")">>,
                  <<"VALUES">>,
                  <<"(">> \o rowFragment \o <<")">>,
                  conflictFragment,
                  ignoreFragment,
                  <<"RETURNING * INTO response;">>,
                  <<"EXCEPTION WHEN unique_violation THEN GET STACKED DIAGNOSTICS sequelize_caught_exception = PG_EXCEPTION_DETAIL;">>,
                  <<"END;">>,
                  delimiter,
                  <<"LANGUAGE plpgsql;">>,
                  <<"SELECT (testfunc.response).">>
                    \o JoinWith(returnFields, ", (testfunc.response).")
                    \o <<", testfunc.sequelize_caught_exception FROM pg_temp.testfunc();">>,
                  PgExceptionCleanup >>),
                NoBind,
                filled.steps \o <<"getReturnFields">> \o quoted
                  \o <<"randomBytes", "quoteTable", "quoteTable", "joinSQLFragments">>,
                valueMap)
  ELSE OkInsert(JoinSQLFragments(<<
                  <<"INSERT INTO">>,
                  QuoteTable(tableName),
                  <<"(">> \o columnFragment \o <<")">>,
                  <<"VALUES">>,
                  <<"(">> \o rowFragment \o <<")">>,
                  conflictFragment,
                  ignoreFragment,
                  returningFragment >>),
                bind, filled.steps \o <<"getReturnFields">> \o quoted
                  \o <<"quoteTable", "joinSQLFragments">>,
                valueMap)

\* The steps of insertQuery before its loop.
PgInsertValidated(options) == IF options.given THEN <<"rejectInvalidOptions">> ELSE <<>>

\* config is this.options.omitNull and dialectOptions.prependSearchPath;
\* random is the value of randomBytes(8).toString('hex').
PgInsertQuery(tableName, value, options, attributeHash, config, random) ==
  LET validated == PgInsertValidated(options)
      valueHash == RemoveNullishValuesFromHash(value.entries, config.omitNull)
      attributeMap == BuildAttributeMap(InsertAttributes(tableName, attributeHash), <<>>)
      filled == InsertValueMap(valueHash, attributeMap, PgInsertBindParam(options, config),
                  [valueMap |-> <<>>, bind |-> <<>>,
                   steps |-> validated \o <<"removeNullishValuesFromHash">>])
  IN
  IF options.given /\ RejectInvalidOptions(INSERT_QUERY_SUPPORTABLE_OPTIONS,
                                           INSERT_QUERY_SUPPORTED_OPTIONS, options)
  THEN Fail(ConfigurationError, <<"rejectInvalidOptions">>)
  ELSE IF options.given /\ InsertModesConflict(options)
  THEN Fail(IgnoreAndUpdateError, validated)
  ELSE IF InsertValueIsInvalid(value)
  THEN Fail(InvalidValueError, validated)
  ELSE PgInsertStatement(tableName, options, config, random, filled)


(***************************************************************************)
(* IBM i query generator.                                                  *)
(***************************************************************************)
CREATE_TABLE_QUERY_SUPPORTABLE_OPTIONS ==
  {"collate", "charset", "engine", "rowFormat", "comment", "initialAutoIncrement", "uniqueKeys"}

CREATE_TABLE_QUERY_SUPPORTED_OPTIONS == {"uniqueKeys"}

ADD_COLUMN_QUERY_SUPPORTABLE_OPTIONS == {"ifNotExists"}

typeWithoutDefault == {"BLOB"}

\* The order of Array.prototype.sort() on the column names of the input set
\* (UTF-16 code units: upper case before lower case).
ColumnRank(name) ==
  CASE name = "A" -> 1 [] name = "B" -> 2 [] name = "a" -> 3 [] name = "b" -> 4 [] OTHER -> 5

RECURSIVE InsertSorted(_, _)
InsertSorted(name, sorted) ==
  IF sorted = <<>> THEN <<name>>
  ELSE IF ColumnRank(name) <= ColumnRank(Head(sorted)) THEN <<name>> \o sorted
  ELSE <<Head(sorted)>> \o InsertSorted(name, Tail(sorted))

\* [...names].sort()
RECURSIVE Sort(_)
Sort(names) == IF names = <<>> THEN <<>> ELSE InsertSorted(Head(names), Sort(Tail(names)))

\* dataType.replace('PRIMARY KEY', ''): drops the first occurrence
RECURSIVE RemoveFirst(_, _)
RemoveFirst(text, token) ==
  IF text = <<>> THEN <<>>
  ELSE IF Head(text) = token THEN Tail(text)
  ELSE <<Head(text)>> \o RemoveFirst(Tail(text), token)

Includes(text, token) == \E i \in 1..Len(text) : text[i] = token

IsInfix(sub, text) ==
  \E i \in 0..(Len(text) - Len(sub)) : SubSeq(text, i + 1, i + Len(sub)) = sub

QuoteColumns(names) ==
  JoinWith([i \in 1..Len(names) |-> QuoteIdentifier(<<names[i]>>)], ", ")

\* The attributes loop of createTableQuery: attributes is the ordered list
\* of [attr, dataType]; acc is [primaryKeys, attrStr].
RECURSIVE IBMiColumnDefinitions(_, _)
IBMiColumnDefinitions(attributes, acc) ==
  IF attributes = <<>> THEN acc
  ELSE LET attr == Head(attributes).attr
           dataType == Head(attributes).dataType
       IN IF Includes(dataType, "PRIMARY KEY")
          THEN IBMiColumnDefinitions(Tail(attributes),
                 [primaryKeys |-> Append(acc.primaryKeys, attr),
                  attrStr |-> Append(acc.attrStr,
                    QuoteIdentifier(<<attr>>) \o <<" ">> \o RemoveFirst(dataType, "PRIMARY KEY"))])
          ELSE IBMiColumnDefinitions(Tail(attributes),
                 [primaryKeys |-> acc.primaryKeys,
                  attrStr |-> Append(acc.attrStr, QuoteIdentifier(<<attr>>) \o <<" ">> \o dataType)])

\* A mutant of UniqueIsPrimary: the fields are compared in the order given.
UniqueIsPrimary_Unsorted(fields, primaryKeys) ==
  /\ Len(fields) = Len(primaryKeys)
  /\ \A index \in 1..Len(fields) : fields[index] = primaryKeys[index]

\* The column names of the input set in lower case.
LowerCaseColumn(name) ==
  CASE name = "A" -> "a" [] name = "B" -> "b" [] OTHER -> name

\* A mutant of UniqueIsPrimary: the column names are compared without case.
UniqueIsPrimary_IgnoreCase(fields, primaryKeys) ==
  LET sortedPrimaryKeys == Sort([i \in 1..Len(primaryKeys) |-> LowerCaseColumn(primaryKeys[i])])
      sortedColumnFields == Sort([i \in 1..Len(fields) |-> LowerCaseColumn(fields[i])])
  IN /\ Len(sortedColumnFields) = Len(primaryKeys)
     /\ \A index \in 1..Len(sortedColumnFields) :
          sortedColumnFields[index] = sortedPrimaryKeys[index]

\* uniqueIsPrimary: the sorted fields of the unique key are, position by
\* position, the sorted primary keys (value === sortedPrimaryKeys[index]).
UniqueIsPrimary(fields, primaryKeys) ==
  LET sortedPrimaryKeys == Sort(primaryKeys)
      sortedColumnFields == Sort(fields)
  IN /\ Len(sortedColumnFields) = Len(primaryKeys)
     /\ \A index \in 1..Len(sortedColumnFields) :
          sortedColumnFields[index] = sortedPrimaryKeys[index]

\* The each(options.uniqueKeys, ...) loop of createTableQuery: uniqueKeys is
\* the ordered list of [indexName, fields]; indexName is Undefined for the
\* entries of an array.
RECURSIVE IBMiUniqueConstraints(_, _, _)
IBMiUniqueConstraints(uniqueKeys, primaryKeys, tableName) ==
  IF uniqueKeys = <<>> THEN <<>>
  ELSE LET columns == Head(uniqueKeys)
           uniqueIsPrimary == UniqueIsPrimary(columns.fields, primaryKeys)
           indexName == IF columns.indexName = Undefined
                        THEN <<"uniq_">> \o tableName.tableName \o <<"_">>
                               \o JoinWith([i \in 1..Len(columns.fields) |-> <<columns.fields[i]>>], "_")
                        ELSE <<columns.indexName>>
           rest == IBMiUniqueConstraints(Tail(uniqueKeys), primaryKeys, tableName)
       IN IF uniqueIsPrimary THEN rest
          ELSE <<", CONSTRAINT ">> \o QuoteIdentifier(indexName) \o <<" UNIQUE (">>
                 \o QuoteColumns(columns.fields) \o <<")">> \o rest

\* The values of options.uniqueKeys in the input set, by name: an array of
\* {fields} (indexName Undefined) or an object keyed by index name.
UniqueKeysValue(id) ==
  CASE id = "ukNone" -> <<>>
    [] id = "ukA" -> <<[indexName |-> Undefined, fields |-> <<"a">>]>>
    [] id = "ukUpperA" -> <<[indexName |-> Undefined, fields |-> <<"A">>]>>
    [] id = "ukBA" -> <<[indexName |-> Undefined, fields |-> <<"b", "a">>]>>
    [] id = "ukNamedAB" -> <<[indexName |-> "idx", fields |-> <<"a", "b">>]>>
    [] id = "ukAandB" -> <<[indexName |-> Undefined, fields |-> <<"a">>],
                           [indexName |-> Undefined, fields |-> <<"b">>]>>
    [] OTHER -> <<>>

UniqueKeysIds == {"ukNone", "ukA", "ukUpperA", "ukBA", "ukNamedAB", "ukAandB"}

IBMiCreateTableQuery(tableName, attributes, options) ==
  IF options.given /\ RejectInvalidOptions(CREATE_TABLE_QUERY_SUPPORTABLE_OPTIONS,
                                           CREATE_TABLE_QUERY_SUPPORTED_OPTIONS, options)
  THEN Fail(ConfigurationError, <<"rejectInvalidOptions">>)
  ELSE LET columns == IBMiColumnDefinitions(attributes, [primaryKeys |-> <<>>, attrStr |-> <<>>])
           primaryKeys == columns.primaryKeys
           pkString == QuoteColumns(primaryKeys)
           uniqueClause == IF Truthy(OptGet(options, "uniqueKeys"))
                           THEN IBMiUniqueConstraints(UniqueKeysValue(OptGet(options, "uniqueKeys")),
                                                      primaryKeys, tableName)
                           ELSE <<>>
           primaryClause == IF Len(pkString) > 0
                            THEN <<", PRIMARY KEY (">> \o pkString \o <<")">> ELSE <<>>
           attributesClause == JoinWith(columns.attrStr, ", ") \o uniqueClause \o primaryClause
       IN Ok(<<"BEGIN DECLARE CONTINUE HANDLER FOR SQLSTATE VALUE '42710' BEGIN END; CREATE TABLE ">>
               \o QuoteTable(tableName) \o <<" (">> \o attributesClause \o <<"); END">>,
             (IF options.given THEN <<"rejectInvalidOptions">> ELSE <<>>)
               \o [i \in 1..Len(attributes) |-> "quoteIdentifier"]
               \o [i \in 1..Len(primaryKeys) |-> "quoteIdentifier"]
               \o (IF uniqueClause = <<>> THEN <<>> ELSE <<"quoteIdentifier">>)
               \o <<"quoteTable">>)


\* String.prototype.toUpperCase on the referential actions of the input set.
ToUpperCase(s) ==
  CASE s = "cascade" -> "CASCADE" [] s = "set null" -> "SET NULL"
    [] s = "restrict" -> "RESTRICT" [] OTHER -> s

NoReferences == [given |-> FALSE, table |-> [tableName |-> <<>>, schema |-> NoSchema], key |-> Undefined]

\* A column attribute object with every field absent except type.
BaseAttribute ==
  [isPlainObject |-> TRUE, type |-> "INTEGER", field |-> Undefined, allowNull |-> Undefined,
   autoIncrement |-> Undefined, defaultValue |-> Undefined, unique |-> Undefined,
   primaryKey |-> Undefined, first |-> Undefined, after |-> Undefined,
   references |-> NoReferences, onDelete |-> Undefined, onUpdate |-> Undefined]

NoAttributeToSqlOptions == [given |-> FALSE, context |-> Undefined, tableName |-> <<>>, foreignKey |-> Undefined]

\* defaultValueSchemable(value, dialect)
DefaultValueSchemable(value) == value # Undefined

\* attribute.type._binary
TypeIsBinary(type) == type = "CHAR BINARY"

\* attributeToSQL(attribute, options): the SQL template, and the attribute
\* object as the call leaves it (attribute.defaultValue is assigned).
IBMiAttributeToSQL(attributeArg, options) ==
  LET attribute == IF attributeArg.isPlainObject THEN attributeArg
                   ELSE [BaseAttribute EXCEPT !.type = attributeArg.type]
      context == IF options.given THEN options.context ELSE Undefined
      attributeString == attribute.type
      typeSql ==
        IF attribute.type = "ENUM"
        THEN <<"VARCHAR(255)">>
               \o (IF options.given /\ Truthy(context) /\ context = "changeColumn"
                   THEN <<" ADD">> ELSE <<>>)
               \o <<" CHECK (">> \o QuoteIdentifier(<<attribute.field>>) \o <<" IN(">>
               \o EscapeLiteral("e1") \o <<", ">> \o EscapeLiteral("e2") \o <<"))">>
        ELSE <<attribute.type>>
      nullSql ==
        IF attribute.allowNull = "false" THEN <<" NOT NULL">>
        ELSE IF attribute.allowNull = "true" /\ options.given /\ context = "changeColumn"
        THEN <<" DROP NOT NULL">>
        ELSE <<>>
      autoIncrementSql ==
        IF Truthy(attribute.autoIncrement)
        THEN <<" GENERATED BY DEFAULT AS IDENTITY (START WITH 1, INCREMENT BY 1)">> ELSE <<>>
      hasDefault ==
        /\ attributeString \notin typeWithoutDefault
        /\ ~TypeIsBinary(attribute.type)
        /\ DefaultValueSchemable(attribute.defaultValue)
      defaultValue ==
        IF ~hasDefault THEN attribute.defaultValue
        ELSE IF attribute.defaultValue = "true" THEN "1"
        ELSE IF attribute.defaultValue = "false" THEN "0"
        ELSE attribute.defaultValue
      defaultSql == IF hasDefault THEN <<" DEFAULT ">> \o EscapeLiteral(defaultValue) ELSE <<>>
      uniqueSql == IF attribute.unique = "true" /\ ~Truthy(attribute.primaryKey)
                   THEN <<" UNIQUE">> ELSE <<>>
      primaryKeySql == IF Truthy(attribute.primaryKey) THEN <<" PRIMARY KEY">> ELSE <<>>
      firstSql == IF Truthy(attribute.first) THEN <<" FIRST">> ELSE <<>>
      afterSql == IF Truthy(attribute.after)
                  THEN <<" AFTER ">> \o QuoteIdentifier(<<attribute.after>>) ELSE <<>>
      attrName == QuoteIdentifier(<<options.foreignKey>>)
      fkName == QuoteIdentifier(options.tableName \o <<"_">> \o attrName \o <<"_foreign_idx">>)
      referencesSql ==
        IF ~attribute.references.given THEN <<>>
        ELSE (IF options.given /\ context = "addColumn" /\ Truthy(options.foreignKey)
              THEN <<" ADD CONSTRAINT ">> \o fkName \o <<" FOREIGN KEY (">> \o attrName \o <<")">>
              ELSE <<>>)
             \o <<" REFERENCES ">> \o QuoteTable(attribute.references.table)
             \o (IF Truthy(attribute.references.key)
                 THEN <<" (">> \o QuoteIdentifier(<<attribute.references.key>>) \o <<")">>
                 ELSE <<" (">> \o QuoteIdentifier(<<"id">>) \o <<")">>)
             \o (IF Truthy(attribute.onDelete)
                 THEN <<" ON DELETE ", ToUpperCase(attribute.onDelete)>> ELSE <<>>)
             \o (IF Truthy(attribute.onUpdate) /\ ToUpperCase(attribute.onUpdate) # "CASCADE"
                 THEN <<" ON UPDATE ", ToUpperCase(attribute.onUpdate)>> ELSE <<>>)
  IN [template |-> typeSql \o nullSql \o autoIncrementSql \o defaultSql \o uniqueSql
                     \o primaryKeySql \o firstSql \o afterSql \o referencesSql,
      \* a non-plain argument is replaced by a fresh object, so it is not written to
      attribute |-> IF attributeArg.isPlainObject
                    THEN [attributeArg EXCEPT !.defaultValue = defaultValue]
                    ELSE attributeArg]

\* attributesToSQL(attributes, options): the loop over Object.keys(attributes),
\* given as the entries in key order; copies is the list of the copies
\* { ...attributes[key], field } as the loop leaves them.
RECURSIVE AttributesToSQLLoop(_, _, _)
AttributesToSQLLoop(entries, options, acc) ==
  IF entries = <<>> THEN acc
  ELSE LET key == Head(entries).key
           attribute == [Head(entries).attribute EXCEPT
                           !.field = IF Truthy(@) THEN @ ELSE key]
           sql == IBMiAttributeToSQL(attribute, options)
       IN AttributesToSQLLoop(Tail(entries), options,
            [result |-> SelectSeq(acc.result, LAMBDA e : e.column # attribute.field)
                          \o <<[column |-> attribute.field, sql |-> sql.template]>>,
             copies |-> Append(acc.copies, sql.attribute)])

\* The returned object is kept as the list of its (key, definition) pairs.
IBMiAttributesToSQL(attributes, options) ==
  LET looped == AttributesToSQLLoop(attributes, options, [result |-> <<>>, copies |-> <<>>])
  IN OkInsert(<<>>, NoBind, [i \in 1..Len(attributes) |-> "attributeToSQL"], looped.result)

\* addColumnQuery(table, key, dataType, options); key is a column name.
IBMiAddColumnQuery(table, key, dataType, options) ==
  IF options.given /\ RejectInvalidOptions(ADD_COLUMN_QUERY_SUPPORTABLE_OPTIONS, EMPTY_SET, options)
  THEN Fail(ConfigurationError, <<"rejectInvalidOptions">>)
  ELSE LET \* { ...dataType, field: key, type: normalizeDataType(dataType.type) }
           copy == [dataType EXCEPT !.field = key, !.isPlainObject = TRUE]
           definition == IBMiAttributeToSQL(copy,
                           [given |-> TRUE, context |-> "addColumn",
                            tableName |-> table.tableName, foreignKey |-> key]).template
       IN Ok(<<"ALTER TABLE ">> \o QuoteTable(table) \o <<" ADD ">>
               \o QuoteIdentifier(<<key>>) \o <<" ">> \o definition,
             (IF options.given THEN <<"rejectInvalidOptions">> ELSE <<>>)
               \o <<"normalizeDataType", "attributeToSQL", "quoteTable", "quoteIdentifier">>)

\* A mutant of IncludesReferences: no definition counts as a constraint.
IncludesReferences_Never(definition) == FALSE

\* definition.includes('REFERENCES'), on definitions given as SQL tokens:
\* the tokens that hold the word are " REFERENCES " and "REFERENCES ".
IncludesReferences(definition) ==
  \E i \in 1..Len(definition) : definition[i] \in {" REFERENCES ", "REFERENCES "}

\* definition.replace(/.+?(?=REFERENCES)/, ''): the text before the first
\* REFERENCES is dropped; a definition that starts with the word is kept.
RECURSIVE FromReferences(_)
FromReferences(definition) ==
  IF definition = <<>> THEN <<>>
  ELSE IF Head(definition) = " REFERENCES " THEN <<"REFERENCES ">> \o Tail(definition)
  ELSE IF Head(definition) = "REFERENCES " THEN definition
  ELSE FromReferences(Tail(definition))

\* The attributes loop of changeColumnQuery: attributes is the ordered list
\* of [attributeName, definition]; a name is given as its characters; acc is
\* [attrString, constraintString].
RECURSIVE IBMiChangedColumns(_, _)
IBMiChangedColumns(attributes, acc) ==
  IF attributes = <<>> THEN acc
  ELSE LET attributeName == Head(attributes).attributeName
           definition == Head(attributes).definition
       IN IF IncludesReferences(definition)
          THEN IBMiChangedColumns(Tail(attributes),
                 [acc EXCEPT !.constraintString = Append(@,
                    QuoteIdentifier(attributeName) \o <<" FOREIGN KEY (">>
                      \o QuoteIdentifier(attributeName) \o <<") ">>
                      \o FromReferences(definition))])
          ELSE IBMiChangedColumns(Tail(attributes),
                 [acc EXCEPT !.attrString = Append(@,
                    <<"\"">> \o attributeName \o <<"\"", " SET DATA TYPE ">> \o definition)])

IBMiChangeColumnQuery(tableName, attributes) ==
  LET lists == IBMiChangedColumns(attributes, [attrString |-> <<>>, constraintString |-> <<>>])
      attrString == lists.attrString
      constraintString == lists.constraintString
      alterColumn == IF Len(attrString) > 0
                     THEN <<"ALTER COLUMN ">> \o JoinWith(attrString, ", ")
                            \o (IF Len(constraintString) > 0 THEN <<" ">> ELSE <<>>)
                     ELSE <<>>
      addConstraint == IF Len(constraintString) > 0
                       THEN <<"ADD CONSTRAINT ">> \o JoinWith(constraintString, ", ")
                       ELSE <<>>
  IN Ok(<<"ALTER TABLE ">> \o QuoteTable(tableName) \o <<" ">> \o alterColumn \o addConstraint,
        [i \in 1..Len(constraintString) |-> "quoteIdentifier"] \o <<"quoteTable">>)

\* The character U+0060, written by its name: a module string cannot hold it.
GraveAccent == "GRAVE ACCENT"

\* The attributes loop of renameColumnQuery.
IBMiRenamedColumns(attrBefore, attributes) ==
  [i \in 1..Len(attributes) |->
     <<GraveAccent>> \o attrBefore \o <<GraveAccent, " ", GraveAccent>>
       \o attributes[i].attributeName \o <<GraveAccent, " ">> \o attributes[i].definition]

IBMiRenameColumnQuery(tableName, attrBefore, attributes) ==
  Ok(<<"ALTER TABLE ">> \o QuoteTable(tableName) \o <<" RENAME COLUMN ">>
       \o JoinWith(IBMiRenamedColumns(attrBefore, attributes), ", ") \o <<";">>,
     <<"quoteTable">>)

(***************************************************************************)
(* Inputs of the calls.                                                    *)
(***************************************************************************)
PgCreateDatabaseOptions ==
  OptionArgs([charset |-> {"utf8"}, collate |-> {"C"}, ctype |-> {"C"},
              encoding |-> {"UTF8", Undefined}, template |-> {"template0"}])

PgRenameTableOptions == OptionArgs([changeSchema |-> Flags, cascade |-> Flags])

PgTruncateTableOptions ==
  OptionArgs([restartIdentity |-> Flags, cascade |-> Flags, changeSchema |-> Flags])

PgRemoveIndexOptions ==
  OptionArgs([concurrently |-> Flags, ifExists |-> Flags, cascade |-> Flags, changeSchema |-> Flags])

IndexNameOrAttributes ==
  {[isArray |-> FALSE, name |-> <<"i">>, fields |-> <<>>],
   [isArray |-> TRUE, name |-> <<>>, fields |-> << <<"f">> >>],
   [isArray |-> TRUE, name |-> <<>>, fields |-> << <<"f">>, <<"g">> >>]}

PgInsertOptions ==
  OptionArgs([ignoreDuplicates |-> Flags, updateOnDuplicate |-> Flags, exception |-> {"true"},
              returning |-> {"true", "list"}, conflictWhere |-> {"w"},
              bindParam |-> {"fn", "false"}, searchPath |-> {"sp"}])

Columns == {"id", "name"}

PayloadValues == {Undefined, Null, "v"}

\* The ordered entries of the value payloads over Columns.
PayloadEntries ==
  {<<>>}
    \cup {<<[key |-> k, val |-> v]>> : k \in Columns, v \in PayloadValues}
    \cup {<<[key |-> k1, val |-> v1], [key |-> k2, val |-> v2]>> :
            k1 \in Columns, k2 \in Columns, v1 \in PayloadValues, v2 \in PayloadValues}

InsertValues ==
  {[kind |-> "object", entries |-> e] : e \in {p \in PayloadEntries : Len(p) < 2 \/ p[1].key # p[2].key}}
    \cup {[kind |-> k, entries |-> <<>>] : k \in {"null", "undefined", "array", "string", "number"}}

IdAttributes == {[key |-> "id", columnName |-> Undefined, autoIncrement |-> a] : a \in Flags}

NameAttributes == {[key |-> "name", columnName |-> Undefined, autoIncrement |-> "false"],
                   [key |-> "name", columnName |-> "id", autoIncrement |-> "true"]}

AttributeLists ==
  {<<>>} \cup {<<a>> : a \in IdAttributes \cup NameAttributes}
    \cup {<<a, b>> : a \in IdAttributes, b \in NameAttributes}

NoAttributeHash == [given |-> FALSE, entries |-> <<>>]

AttributeHashes == {NoAttributeHash} \cup {[given |-> TRUE, entries |-> a] : a \in AttributeLists}

PlainInsertTable == [tableName |-> <<"t">>, schema |-> <<"a">>, isModel |-> FALSE, physicalAttributes |-> <<>>]

ModelTables ==
  {[tableName |-> <<"t">>, schema |-> NoSchema, isModel |-> TRUE, physicalAttributes |-> <<a>>] :
     a \in IdAttributes}

Randoms == {"0a", "1b"}

\* The fragment lists handed to joinSQLFragments: clauses and empty strings
\* (a clause that does not apply), up to MaxFragments of them.
MaxFragments == 4

Fragments == {<<>>, <<"SELECT *">>, <<"FROM t">>}

FragmentLists == UNION {[1..n -> Fragments] : n \in 0..MaxFragments}

Db2Options == OptionArgs([cascade |-> Flags, ifExists |-> Flags, changeSchema |-> Flags,
                          restartIdentity |-> Flags])

Db2IndexOptions ==
  Objects([include |-> {"cols", Undefined}, unique |-> Flags,
           type |-> {"UNIQUE", "unique", "Unique", "FULLTEXT", Undefined}], 3)

\* The skip lists and schema filters of the list operations.
SkipValues ==
  {[isArray |-> TRUE, items |-> i] : i \in {<<>>, <<"s1">>, <<"s1", "s2">>}}
    \cup {[isArray |-> FALSE, items |-> <<>>]}

SchemaFilters == {"s1", "information_schema", "SQLJ", ""}

ListOptions ==
  {NoOptions, [given |-> TRUE, obj |-> <<>>]}
    \cup {[given |-> TRUE, obj |-> [skip |-> s]] : s \in SkipValues}
    \cup {[given |-> TRUE, obj |-> [schema |-> f]] : f \in SchemaFilters}
    \cup {[given |-> TRUE, obj |-> [skip |-> s, schema |-> f]] : s \in SkipValues, f \in SchemaFilters}

IBMiAttributeLists ==
  LET DataTypes == {<<"INTEGER">>, <<"INTEGER", " ", "PRIMARY KEY">>}
  IN {<<>>}
       \cup {<<[attr |-> a, dataType |-> d]>> : a \in {"a", "b"}, d \in DataTypes}
       \cup {<<[attr |-> "a", dataType |-> d1], [attr |-> "b", dataType |-> d2]>> :
               d1 \in DataTypes, d2 \in DataTypes}
       \cup {<<[attr |-> "b", dataType |-> d1], [attr |-> "a", dataType |-> d2]>> :
               d1 \in DataTypes, d2 \in DataTypes}

IBMiCreateTableOptions ==
  OptionArgs([uniqueKeys |-> UniqueKeysIds, comment |-> {"c"}, engine |-> {"e"}])

IBMiAddColumnOptions == OptionArgs([ifNotExists |-> Flags, comment |-> {"c"}])

AttributeFieldValues ==
  [type |-> {"BLOB", "ENUM", "CHAR BINARY"}, allowNull |-> Flags, autoIncrement |-> {"true"},
   defaultValue |-> {"true", "false", "v"}, unique |-> {"true"}, primaryKey |-> {"true"},
   first |-> {"true"}, after |-> {"b"}, onDelete |-> {"cascade"},
   onUpdate |-> {"cascade", "restrict"}]

ReferencesValues ==
  {NoReferences}
    \cup {[given |-> TRUE, table |-> [tableName |-> <<"r">>, schema |-> NoSchema], key |-> k] :
            k \in {Undefined, "rid"}}

AttributeObjects ==
  {[f \in DOMAIN BaseAttribute |->
      IF f = "references" THEN r ELSE IF f \in DOMAIN o THEN o[f] ELSE BaseAttribute[f]] :
     o \in Objects(AttributeFieldValues, MaxAttributeFields), r \in ReferencesValues}

\* The column names of changeColumnQuery and renameColumnQuery, as their
\* characters; one holds the quote character.
ColumnNames == {<<"a">>, <<"b">>, <<"c", "\"">>}

\* Column definitions as attributesToSQL renders them.
ColumnDefinitions ==
  {<<"INTEGER">>, <<"INTEGER", " NOT NULL">>,
   <<"INTEGER", " REFERENCES ", "\"", "r", "\"", " (", "\"", "id", "\"", ")">>,
   <<"REFERENCES ", "\"", "r", "\"", " (", "\"", "id", "\"", ")">>}

\* The attributes objects of up to MaxChangedColumns keys, in key order.
MaxChangedColumns == 2

ChangedAttributes ==
  {s \in UNION {[1..n -> [attributeName : ColumnNames, definition : ColumnDefinitions]] :
                  n \in 0..MaxChangedColumns} :
     \A i, j \in 1..Len(s) : s[i].attributeName = s[j].attributeName => i = j}

\* The attributes objects of attributesToSQL, as entries in key order.
AttributeHashesToSql ==
  {<<>>}
    \cup {<<[key |-> "a", attribute |-> a]>> : a \in AttributeObjects}
    \cup {<<[key |-> "a", attribute |-> a], [key |-> "b", attribute |-> b]>> :
            a \in {x \in AttributeObjects : x.defaultValue = "true" /\ x.references = NoReferences},
            b \in {x \in AttributeObjects : x.defaultValue # Undefined /\ x.references = NoReferences}}

\* The options of attributeToSQL: absent, or {context, tableName, foreignKey}.
AttributeToSqlOptions ==
  {NoAttributeToSqlOptions}
    \cup [given : {TRUE}, context : {Undefined, "createTable", "addColumn", "changeColumn"},
          tableName : {<<"t">>}, foreignKey : {Undefined, "a"}]

(***************************************************************************)
(* The state machine.  Generation is call-scoped: a call reads only its    *)
(* arguments and the generator's construction-time options.  The initial   *)
(* state is a constructed generator with one call about to run; the        *)
(* operation's action runs the call to its return or throw.                *)
(***************************************************************************)
Pending == [Ok(<<>>, <<>>) EXCEPT !.error = "pending", !.ok = FALSE]

Calls(name, arguments) ==
  /\ op = name
  /\ args \in arguments

Init ==
  /\ sequelizeOptions \in [omitNull : BOOLEAN, prependSearchPath : BOOLEAN]
  /\ pc = "called"
  /\ result = Pending
  /\ previous = Pending
  /\ indexes = {}
  /\ calls = <<>>
  /\ heap = <<>>
  /\ \/ Calls("postgres.createDatabaseQuery",
              [database : TableNames, options : PgCreateDatabaseOptions])
     \/ Calls("postgres.renameTableQuery",
              [beforeTableName : Tables, afterTableName : Tables, options : PgRenameTableOptions])
     \/ Calls("postgres.truncateTableQuery", [tableName : Tables, options : PgTruncateTableOptions])
     \/ Calls("postgres.removeIndexQuery",
              [tableName : Tables, indexNameOrAttributes : IndexNameOrAttributes,
               options : PgRemoveIndexOptions])
     \/ Calls("postgres.insertQuery",
              [tableName : {PlainInsertTable}, value : InsertValues, options : PgInsertOptions,
               attributeHash : AttributeHashes, random : Randoms]
                \cup [tableName : ModelTables, value : InsertValues, options : PgInsertOptions,
                      attributeHash : {NoAttributeHash}, random : Randoms])
     \/ Calls("joinSQLFragments", [fragments : FragmentLists])
     \/ Calls("postgres.listDatabasesQuery", [options : ListOptions])
     \/ Calls("postgres.listSchemasQuery", [options : ListOptions])
     \/ Calls("postgres.listTablesQuery", [options : ListOptions])
     \/ Calls("db2.listSchemasQuery", [options : ListOptions])
     \/ Calls("db2.listTablesQuery", [options : ListOptions])
     \/ Calls("db2.dropSchemaQuery", [schemaName : Schemas, options : Db2Options])
     \/ Calls("db2.renameTableQuery",
              [beforeTableName : Tables, afterTableName : Tables, options : Db2Options])
     \/ Calls("db2.truncateTableQuery", [tableName : Tables, options : Db2Options])
     \/ Calls("db2.addIndexQuery", [tableOrModel : Tables, options : Db2IndexOptions])
     \/ Calls("db2.generateTransactionId", [random : Randoms])
     \/ Calls("db2.showConstraintsQuery",
              [tableName : Tables,
               options : OptionArgs([columnName |-> {"c", ""}, constraintName |-> {"n", Undefined},
                                     constraintType |-> {"PRIMARY KEY", "FOREIGN KEY", "UNIQUE",
                                                       "CHECK", "INDEX", "unique", Undefined}])])
     \/ Calls("ibmi.createTableQuery",
              [tableName : Tables, attributes : IBMiAttributeLists, options : IBMiCreateTableOptions])
     \/ Calls("ibmi.addColumnQuery",
              [table : {t \in Tables : t.tableName = <<"t">>}, key : {"a"},
               dataType : AttributeObjects, options : IBMiAddColumnOptions])
     \/ Calls("ibmi.changeColumnQuery", [tableName : Tables, attributes : ChangedAttributes])
     \/ Calls("ibmi.renameColumnQuery",
              [tableName : Tables, attrBefore : ColumnNames, attributes : ChangedAttributes])
     \/ Calls("ibmi.attributeToSQL", [attribute : AttributeObjects, options : AttributeToSqlOptions])
     \/ Calls("ibmi.attributesToSQL",
              [attributes : AttributeHashesToSql, options : AttributeToSqlOptions])
  /\ caller = args
  /\ technical = FreshTechnicalNames

\* The call of operation name runs, returns returned and leaves the
\* caller's argument objects as left.
Leaves(name, returned, left) ==
  /\ pc = "called"
  /\ op = name
  /\ pc' = "returned"
  /\ result' = returned
  /\ caller' = left
  /\ UNCHANGED <<sequelizeOptions, op, args, previous, indexes, calls, heap, technical>>

\* The call of an operation that writes to none of its arguments.
Run(name, returned) == Leaves(name, returned, caller)

JoinSQLFragmentsCall ==
  Run("joinSQLFragments", Ok(JoinSQLFragments(args.fragments), <<"joinSQLFragments">>))

PgCreateDatabaseQueryCall ==
  Run("postgres.createDatabaseQuery", PgCreateDatabaseQuery(args.database, args.options))

PgRenameTableQueryCall ==
  Run("postgres.renameTableQuery",
      PgRenameTableQuery(args.beforeTableName, args.afterTableName, args.options))

PgTruncateTableQueryCall ==
  Run("postgres.truncateTableQuery", PgTruncateTableQuery(args.tableName, args.options))

PgRemoveIndexQueryCall ==
  Run("postgres.removeIndexQuery",
      PgRemoveIndexQuery(args.tableName, args.indexNameOrAttributes, args.options))

PgInsertQueryCall ==
  Run("postgres.insertQuery",
      PgInsertQuery(args.tableName, args.value, args.options, args.attributeHash,
                    sequelizeOptions, args.random))

PgListDatabasesQueryCall ==
  Run("postgres.listDatabasesQuery", PgListDatabasesQuery(args.options))

PgListSchemasQueryCall ==
  Run("postgres.listSchemasQuery", PgListSchemasQuery(args.options))

PgListTablesQueryCall ==
  Run("postgres.listTablesQuery", PgListTablesQuery(args.options))

Db2ListSchemasQueryCall ==
  Run("db2.listSchemasQuery", Db2ListSchemasQuery(args.options))

Db2ListTablesQueryCall ==
  Run("db2.listTablesQuery", Db2ListTablesQuery(args.options))

Db2DropSchemaQueryCall ==
  Run("db2.dropSchemaQuery", Db2DropSchemaQuery(args.schemaName, args.options))

Db2RenameTableQueryCall ==
  Run("db2.renameTableQuery",
      Db2RenameTableQuery(args.beforeTableName, args.afterTableName, args.options))

Db2TruncateTableQueryCall ==
  Run("db2.truncateTableQuery", Db2TruncateTableQuery(args.tableName, args.options))

Db2AddIndexQueryCall ==
  Run("db2.addIndexQuery", Db2AddIndexQuery(args.tableOrModel, args.options))

Db2ShowConstraintsQueryCall ==
  Run("db2.showConstraintsQuery", Db2ShowConstraintsQuery(args.tableName, args.options))

Db2GenerateTransactionIdCall ==
  Run("db2.generateTransactionId", Db2GenerateTransactionId(args.random))

IBMiCreateTableQueryCall ==
  Run("ibmi.createTableQuery",
      IBMiCreateTableQuery(args.tableName, args.attributes, args.options))

IBMiAddColumnQueryCall ==
  Run("ibmi.addColumnQuery",
      IBMiAddColumnQuery(args.table, args.key, args.dataType, args.options))

\* attributeToSQL writes attribute.defaultValue into the object it was given.
IBMiAttributeToSQLCall ==
  Leaves("ibmi.attributeToSQL",
         Ok(IBMiAttributeToSQL(args.attribute, args.options).template, <<"attributeToSQL">>),
         [caller EXCEPT !.attribute = IBMiAttributeToSQL(args.attribute, args.options).attribute])

\* attributesToSQL hands attributeToSQL its own copy of every attribute.
IBMiAttributesToSQLCall ==
  Run("ibmi.attributesToSQL", IBMiAttributesToSQL(args.attributes, args.options))

IBMiChangeColumnQueryCall ==
  Run("ibmi.changeColumnQuery", IBMiChangeColumnQuery(args.tableName, args.attributes))

IBMiRenameColumnQueryCall ==
  Run("ibmi.renameColumnQuery",
      IBMiRenameColumnQuery(args.tableName, args.attrBefore, args.attributes))

Next ==
  \/ JoinSQLFragmentsCall
  \/ PgCreateDatabaseQueryCall
  \/ PgRenameTableQueryCall
  \/ PgTruncateTableQueryCall
  \/ PgRemoveIndexQueryCall
  \/ PgInsertQueryCall
  \/ PgListDatabasesQueryCall
  \/ PgListSchemasQueryCall
  \/ PgListTablesQueryCall
  \/ Db2ListSchemasQueryCall
  \/ Db2ListTablesQueryCall
  \/ Db2DropSchemaQueryCall
  \/ Db2RenameTableQueryCall
  \/ Db2TruncateTableQueryCall
  \/ Db2AddIndexQueryCall
  \/ Db2GenerateTransactionIdCall
  \/ Db2ShowConstraintsQueryCall
  \/ IBMiCreateTableQueryCall
  \/ IBMiAddColumnQueryCall
  \/ IBMiAttributeToSQLCall
  \/ IBMiAttributesToSQLCall
  \/ IBMiChangeColumnQueryCall
  \/ IBMiRenameColumnQueryCall

Spec == Init /\ [][Next]_vars

(***************************************************************************)
(* The same operation called a second time on the same generator with the  *)
(* same inputs.  args.random is not an input: it is the value randomBytes  *)
(* returns to the call in progress, and the second call draws its own.     *)
(***************************************************************************)
\* What the call of operation name with these arguments returns.
Returns(name, a) ==
  CASE name = "joinSQLFragments" -> Ok(JoinSQLFragments(a.fragments), <<"joinSQLFragments">>)
    [] name = "postgres.createDatabaseQuery" -> PgCreateDatabaseQuery(a.database, a.options)
    [] name = "postgres.renameTableQuery" ->
         PgRenameTableQuery(a.beforeTableName, a.afterTableName, a.options)
    [] name = "postgres.truncateTableQuery" -> PgTruncateTableQuery(a.tableName, a.options)
    [] name = "postgres.removeIndexQuery" ->
         PgRemoveIndexQuery(a.tableName, a.indexNameOrAttributes, a.options)
    [] name = "postgres.insertQuery" ->
         PgInsertQuery(a.tableName, a.value, a.options, a.attributeHash, sequelizeOptions, a.random)
    [] name = "postgres.listDatabasesQuery" -> PgListDatabasesQuery(a.options)
    [] name = "postgres.listSchemasQuery" -> PgListSchemasQuery(a.options)
    [] name = "postgres.listTablesQuery" -> PgListTablesQuery(a.options)
    [] name = "db2.listSchemasQuery" -> Db2ListSchemasQuery(a.options)
    [] name = "db2.listTablesQuery" -> Db2ListTablesQuery(a.options)
    [] name = "db2.dropSchemaQuery" -> Db2DropSchemaQuery(a.schemaName, a.options)
    [] name = "db2.renameTableQuery" ->
         Db2RenameTableQuery(a.beforeTableName, a.afterTableName, a.options)
    [] name = "db2.truncateTableQuery" -> Db2TruncateTableQuery(a.tableName, a.options)
    [] name = "db2.addIndexQuery" -> Db2AddIndexQuery(a.tableOrModel, a.options)
    [] name = "db2.generateTransactionId" -> Db2GenerateTransactionId(a.random)
    [] name = "db2.showConstraintsQuery" -> Db2ShowConstraintsQuery(a.tableName, a.options)
    [] name = "ibmi.createTableQuery" -> IBMiCreateTableQuery(a.tableName, a.attributes, a.options)
    [] name = "ibmi.addColumnQuery" -> IBMiAddColumnQuery(a.table, a.key, a.dataType, a.options)
    [] name = "ibmi.changeColumnQuery" -> IBMiChangeColumnQuery(a.tableName, a.attributes)
    [] name = "ibmi.renameColumnQuery" ->
         IBMiRenameColumnQuery(a.tableName, a.attrBefore, a.attributes)
    [] name = "ibmi.attributesToSQL" -> IBMiAttributesToSQL(a.attributes, a.options)
    [] name = "ibmi.attributeToSQL" ->
         Ok(IBMiAttributeToSQL(a.attribute, a.options).template, <<"attributeToSQL">>)

\* The second call, with the caller's objects as the first call left them:
\* previous keeps what the first call returned.
CallAgain ==
  /\ pc = "returned"
  /\ pc' = "recalled"
  /\ previous' = result
  /\ \E random \in Randoms :
       \E again \in {IF "random" \in DOMAIN caller THEN [caller EXCEPT !.random = random]
                      ELSE caller} :
         /\ args' = again
         /\ result' = Returns(op, again)
  /\ UNCHANGED <<sequelizeOptions, op, indexes, calls, heap, caller, technical>>

TwiceNext == Next \/ CallAgain

TwiceSpec == Init /\ [][TwiceNext]_vars

(***************************************************************************)
(* insertQuery calls of several callers on one generator, interleaved      *)
(* statement by statement: a call checks its arguments and creates its     *)
(* bind collection, handles one entry of the payload per loop iteration,   *)
(* and returns.  valueMap and steps are locals of the call; the bind       *)
(* collection is the object of the heap that the call created.             *)
(***************************************************************************)
MaxCallers == 2

Callers == 1..MaxCallers

\* The value that only caller c inserts.
OwnValue(c) == <<"v", "w", "x">>[c]

\* The calls of caller c.
InterleavedInserts(c) ==
  [tableName : {PlainInsertTable},
   value : {[kind |-> "array", entries |-> <<>>]}
             \cup {[kind |-> "object", entries |-> e] :
                     e \in {<<>>, <<[key |-> "id", val |-> OwnValue(c)]>>,
                            <<[key |-> "id", val |-> Null], [key |-> "name", val |-> OwnValue(c)]>>,
                            <<[key |-> "name", val |-> OwnValue(c)], [key |-> "id", val |-> OwnValue(c)]>>}},
   options : {NoOptions, [given |-> TRUE, obj |-> [bindParam |-> "fn"]],
              [given |-> TRUE, obj |-> [exception |-> "true"]]},
   attributeHash : {NoAttributeHash,
                    [given |-> TRUE,
                     entries |-> <<[key |-> "id", columnName |-> Undefined, autoIncrement |-> "true"]>>]},
   random : {"0a"}]

\* A mutant of BindObject: every call uses the same bind collection.
BindObject_Shared(c) == 1

\* const bind = Object.create(null): the object that call c creates.
BindObject(c) == c

InterleavedInit ==
  /\ sequelizeOptions \in [omitNull : BOOLEAN, prependSearchPath : {FALSE}]
  /\ op = "postgres.insertQuery"
  /\ args = [callers |-> MaxCallers]
  /\ pc = "interleaved"
  /\ result = Pending
  /\ previous = Pending
  /\ indexes = {}
  /\ calls \in {f \in [Callers -> UNION {InterleavedInserts(c) : c \in Callers}] :
                  \A c \in Callers : f[c] \in InterleavedInserts(c)}
  /\ heap = [o \in Callers |-> <<>>]
  /\ caller = args
  /\ technical = FreshTechnicalNames

\* The position of a call that has not begun: its arguments only.
Begun(call) == "pc" \in DOMAIN call

\* Lines 384-416: the checks, then the locals of the call.
InsertBegins ==
  \E c \in Callers :
    /\ ~Begun(calls[c])
    /\ LET a == calls[c]
           failed == PgInsertQuery(a.tableName, a.value, a.options, a.attributeHash,
                                   sequelizeOptions, a.random)
       IN IF \/ a.options.given /\ RejectInvalidOptions(INSERT_QUERY_SUPPORTABLE_OPTIONS,
                                                         INSERT_QUERY_SUPPORTED_OPTIONS, a.options)
             \/ a.options.given /\ InsertModesConflict(a.options)
             \/ InsertValueIsInvalid(a.value)
          THEN /\ calls' = [calls EXCEPT ![c] =
                              [args |-> a, pc |-> "returned", valueHash |-> <<>>, valueMap |-> <<>>,
                               steps |-> <<>>, result |-> failed]]
               /\ heap' = heap
          ELSE /\ calls' = [calls EXCEPT ![c] =
                              [args |-> a, pc |-> "loop",
                               valueHash |-> RemoveNullishValuesFromHash(a.value.entries,
                                                                         sequelizeOptions.omitNull),
                               valueMap |-> <<>>,
                               steps |-> PgInsertValidated(a.options)
                                           \o <<"removeNullishValuesFromHash">>,
                               result |-> Pending]]
               /\ heap' = [heap EXCEPT ![BindObject(c)] = <<>>]
    /\ UNCHANGED <<sequelizeOptions, op, args, pc, result, previous, indexes, caller, technical>>

\* Lines 428-440: one iteration of the loop over the entries of valueHash.
InsertLoops ==
  \E c \in Callers :
    /\ Begun(calls[c]) /\ calls[c].pc = "loop" /\ calls[c].valueHash # <<>>
    /\ LET call == calls[c]
           a == call.args
           filled == InsertValueMap(<<Head(call.valueHash)>>,
                       BuildAttributeMap(InsertAttributes(a.tableName, a.attributeHash), <<>>),
                       PgInsertBindParam(a.options, sequelizeOptions),
                       [valueMap |-> call.valueMap, bind |-> heap[BindObject(c)],
                        steps |-> call.steps])
       IN /\ calls' = [calls EXCEPT ![c] =
                         [call EXCEPT !.valueHash = Tail(@), !.valueMap = filled.valueMap,
                                      !.steps = filled.steps]]
          /\ heap' = [heap EXCEPT ![BindObject(c)] = filled.bind]
    /\ UNCHANGED <<sequelizeOptions, op, args, pc, result, previous, indexes, caller, technical>>

\* Lines 442-502: the statement and the bind collection are returned.
InsertReturns ==
  \E c \in Callers :
    /\ Begun(calls[c]) /\ calls[c].pc = "loop" /\ calls[c].valueHash = <<>>
    /\ LET call == calls[c]
           a == call.args
       IN calls' = [calls EXCEPT ![c] =
                      [call EXCEPT !.pc = "returned",
                                   !.result = PgInsertStatement(a.tableName, a.options,
                                                sequelizeOptions, a.random,
                                                [valueMap |-> call.valueMap,
                                                 bind |-> heap[BindObject(c)],
                                                 steps |-> call.steps])]]
    /\ UNCHANGED <<sequelizeOptions, op, args, pc, result, previous, indexes, heap, caller, technical>>

InterleavedNext ==
  \/ InsertBegins
  \/ InsertLoops
  \/ InsertReturns

InterleavedSpec == InterleavedInit /\ [][InterleavedNext]_vars

(***************************************************************************)
(* List calls made one after the other on one generator.  The internals    *)
(* of a dialect own its list of technical names and hand the same list to  *)
(* every call; a call may pass a skip list.                                *)
(***************************************************************************)
MaxListCalls == 3

\* The options of the repeated list calls: absent, empty, or a skip value.
RepeatedListOptions ==
  {NoOptions, [given |-> TRUE, obj |-> <<>>]}
    \cup {[given |-> TRUE, obj |-> [skip |-> s]] : s \in SkipValues}

ListInit ==
  /\ sequelizeOptions = [omitNull |-> FALSE, prependSearchPath |-> FALSE]
  /\ op = "constructor"
  /\ args = [options |-> NoOptions]
  /\ pc = "constructed"
  /\ result = Pending
  /\ previous = Pending
  /\ indexes = {}
  /\ calls = <<>>
  /\ heap = <<>>
  /\ caller = args
  /\ technical = FreshTechnicalNames

\* A list call on list field of the internals returned and left the list as
\* the code leaves it.
Listed(name, field, options, returned) ==
  /\ Len(calls) < MaxListCalls
  /\ op' = name
  /\ args' = [options |-> options]
  /\ caller' = [options |-> options]
  /\ pc' = "listed"
  /\ result' = returned
  /\ calls' = Append(calls, [op |-> name, options |-> options])
  /\ technical' = [technical EXCEPT ![field] = TechnicalNamesAfter(@, options)]
  /\ UNCHANGED <<sequelizeOptions, previous, indexes, heap>>

PgListDatabasesQueryNext ==
  \E options \in RepeatedListOptions :
    Listed("postgres.listDatabasesQuery", "pgDatabases", options,
           PgListDatabasesQueryOver(technical.pgDatabases, options))

PgListSchemasQueryNext ==
  \E options \in RepeatedListOptions :
    Listed("postgres.listSchemasQuery", "pgSchemas", options,
           PgListSchemasQueryOver(technical.pgSchemas, options))

Db2ListSchemasQueryNext ==
  \E options \in RepeatedListOptions :
    Listed("db2.listSchemasQuery", "db2Schemas", options,
           Db2ListSchemasQueryOver(technical.db2Schemas, options))

ListNext ==
  \/ PgListDatabasesQueryNext
  \/ PgListSchemasQueryNext
  \/ Db2ListSchemasQueryNext

ListSpec == ListInit /\ [][ListNext]_vars

(***************************************************************************)
(* The query interface over a connected Postgres database.  addIndex,      *)
(* removeIndex and showIndexes generate their statement and run it; the    *)
(* database keeps the catalog of indexes.  Table t exists in the default   *)
(* schema and in schema a, each with a primary key on id.                  *)
(***************************************************************************)
MaxIndexes == 2

IndexTables == {[tableName |-> <<"t">>, schema |-> s] : s \in {NoSchema, <<"a">>}}

IndexFieldLists == {<< <<"f">> >>, << <<"f">>, <<"g">> >>, << <<"g">>, <<"f">> >>}

\* The index options of addIndex: fields, and optionally name and unique.
AddIndexOptions ==
  UNION {{[fields |-> f],
          [fields |-> f, unique |-> "true"],
          [fields |-> f, name |-> <<"i">>],
          [fields |-> f, name |-> <<"i">>, unique |-> "true"]} : f \in IndexFieldLists}

IndexNamesOrAttributes ==
  {[isArray |-> FALSE, name |-> <<"i">>, fields |-> <<>>]}
    \cup {[isArray |-> TRUE, name |-> <<>>, fields |-> f] : f \in IndexFieldLists}

RemoveIndexOptions == {NoOptions, [given |-> TRUE, obj |-> [ifExists |-> "true"]]}

\* The catalog entry of the primary key of table t in a schema.
PrimaryKeyIndex(schema) ==
  [schema |-> schema, tableName |-> <<"t">>, name |-> <<"t", "_", "pkey">>,
   fields |-> <<[name |-> <<"id">>, order |-> "ASC"]>>, unique |-> TRUE, primary |-> TRUE]

\* The index name of addIndexQuery: the name supplied, else the derived one.
AddIndexName(table, options) ==
  IF "name" \in DOMAIN options THEN options.name ELSE GenerateIndexName(table, options.fields)

\* The catalog entry that running the statement of addIndexQuery creates.
CreatedIndex(tableName, options) ==
  LET table == ExtractTableDetails(tableName, "postgres")
  IN [schema |-> table.schema, tableName |-> table.tableName,
      name |-> AddIndexName(table, options),
      fields |-> [i \in 1..Len(options.fields) |-> [name |-> options.fields[i], order |-> "ASC"]],
      unique |-> "unique" \in DOMAIN options /\ Truthy(options.unique),
      primary |-> FALSE]

\* The indexes that the database drops for a DROP INDEX statement: those
\* whose schema-qualified name the statement names.
DroppedIndexes(query, catalog) ==
  LET IsName(token) == token \notin {"DROP INDEX", "CONCURRENTLY", "IF EXISTS", "CASCADE", " "}
      named == SelectSeq(query, IsName)
  IN {e \in catalog : named = QuoteIdentifier(e.schema) \o <<".">> \o QuoteIdentifier(e.name)}

\* The rows that the database returns for the statement of showIndexesQuery:
\* the indexes of the tables that meet its conditions.
ShownIndexes(query, catalog) ==
  {e \in catalog :
     /\ IsInfix(<<"t.relname = ">> \o EscapeString(e.tableName) \o <<" ">>, query)
     /\ Includes(query, "s.nspname = ")
          => IsInfix(<<"s.nspname = ">> \o EscapeString(e.schema) \o <<" ">>, query)}

DatabaseError == "DatabaseError"

IndexInit ==
  /\ sequelizeOptions = [omitNull |-> FALSE, prependSearchPath |-> FALSE]
  /\ op = "queryInterface.createTable"
  /\ args = [tableName |-> <<"t">>]
  /\ pc = "returned"
  /\ result = Ok(<<>>, <<>>)
  /\ previous = Pending
  /\ indexes = {PrimaryKeyIndex(DefaultSchema("postgres")), PrimaryKeyIndex(<<"a">>)}
  /\ calls = <<>>
  /\ heap = <<>>
  /\ caller = args
  /\ technical = FreshTechnicalNames

\* An operation of the query interface has run.
Ran(name, arguments, returned, catalog) ==
  /\ op' = name
  /\ args' = arguments
  /\ pc' = "returned"
  /\ result' = returned
  /\ indexes' = catalog
  /\ caller' = arguments
  /\ UNCHANGED <<sequelizeOptions, previous, calls, heap, technical>>

AddIndex ==
  \E tableName \in IndexTables, options \in AddIndexOptions :
    LET created == CreatedIndex(tableName, options)
        taken == \E e \in indexes : e.schema = created.schema /\ e.name = created.name
    IN /\ pc = "returned"
       /\ Cardinality({e \in indexes : ~e.primary}) < MaxIndexes
       /\ Ran("queryInterface.addIndex", [tableName |-> tableName, options |-> options],
              IF taken THEN Fail(DatabaseError, <<"addIndexQuery">>)
              ELSE Ok(<<>>, <<"addIndexQuery">>),
              IF taken THEN indexes ELSE indexes \cup {created})

RemoveIndex ==
  \E tableName \in IndexTables, indexNameOrAttributes \in IndexNamesOrAttributes,
     options \in RemoveIndexOptions :
    \E generated \in {PgRemoveIndexQuery(tableName, indexNameOrAttributes, options)} :
      \E dropped \in {DroppedIndexes(generated.query, indexes)} :
        LET refused == \/ \E e \in dropped : e.primary
                       \/ dropped = {} /\ ~Includes(generated.query, "IF EXISTS")
        IN /\ pc = "returned"
           /\ Ran("queryInterface.removeIndex",
                  [tableName |-> tableName, indexNameOrAttributes |-> indexNameOrAttributes,
                   options |-> options],
                  IF ~generated.ok THEN generated
                  ELSE IF refused THEN [generated EXCEPT !.ok = FALSE, !.error = DatabaseError]
                  ELSE generated,
                  IF ~generated.ok \/ refused THEN indexes ELSE indexes \ dropped)

ShowIndexes ==
  \E tableName \in IndexTables :
    \E generated \in {PgShowIndexesQuery(tableName)} :
      /\ pc = "returned"
      /\ Ran("queryInterface.showIndexes", [tableName |-> tableName],
             [generated EXCEPT !.rows = ShownIndexes(generated.query, indexes)],
             indexes)

IndexNext ==
  \/ AddIndex
  \/ RemoveIndex
  \/ ShowIndexes

IndexSpec == IndexInit /\ [][IndexNext]_vars


(***************************************************************************)
(* Properties.                                                             *)
(***************************************************************************)
Returned(name) == pc = "returned" /\ op = name

\* The call failed and produced no SQL.
NoSql == ~result.ok /\ result.query = <<>> /\ ~result.delegated

\* The option keys that each operation's dialect accepts.
SupportedOptions(name) ==
  CASE name = "postgres.createDatabaseQuery" -> CREATE_DATABASE_QUERY_SUPPORTED_OPTIONS
    [] name = "postgres.insertQuery" -> INSERT_QUERY_SUPPORTED_OPTIONS
    [] name = "postgres.renameTableQuery" -> {"changeSchema"}
    [] name = "postgres.truncateTableQuery" -> {"restartIdentity", "cascade"}
    [] name = "postgres.removeIndexQuery" -> {"concurrently", "ifExists", "cascade"}
    [] name = "db2.dropSchemaQuery" -> EMPTY_SET
    [] name = "db2.renameTableQuery" -> EMPTY_SET
    [] name = "db2.truncateTableQuery" -> EMPTY_SET
    [] name = "ibmi.createTableQuery" -> CREATE_TABLE_QUERY_SUPPORTED_OPTIONS
    [] name = "ibmi.addColumnQuery" -> EMPTY_SET

OperationsWithOptions ==
  {"postgres.createDatabaseQuery", "postgres.insertQuery", "postgres.renameTableQuery",
   "postgres.truncateTableQuery", "postgres.removeIndexQuery", "db2.dropSchemaQuery",
   "db2.renameTableQuery", "db2.truncateTableQuery", "ibmi.createTableQuery",
   "ibmi.addColumnQuery"}

EmptySupportedOperations ==
  {"db2.dropSchemaQuery", "db2.renameTableQuery", "db2.truncateTableQuery", "ibmi.addColumnQuery"}

\* C1: an insertQuery call whose options set both ignoreDuplicates and
\* updateOnDuplicate to truthy values fails and returns no query, whatever
\* the payload, the attributes and the other options are.
C1_ExclusiveModesFail ==
  (/\ Returned("postgres.insertQuery")
   /\ Truthy(OptGet(args.options, "ignoreDuplicates"))
   /\ Truthy(OptGet(args.options, "updateOnDuplicate")))
    => NoSql

\* A call with both modes and a third option, a valid payload, rejected for
\* the conflict of the two modes.
C1_Witness ==
  /\ Returned("postgres.insertQuery")
  /\ Truthy(OptGet(args.options, "ignoreDuplicates"))
  /\ Truthy(OptGet(args.options, "updateOnDuplicate"))
  /\ Truthy(OptGet(args.options, "exception"))
  /\ args.value.kind = "object"
  /\ Len(args.value.entries) = 2
  /\ result.error = IgnoreAndUpdateError

\* C2: in each of the ten operations that take an options object, a call
\* whose options contain a key outside the dialect's supported set for the
\* operation fails and returns no SQL.
C2_UnsupportedKeyFails ==
  (/\ pc = "returned"
   /\ op \in OperationsWithOptions
   /\ \E key \in OptKeys(args.options) : key \notin SupportedOptions(op))
    => NoSql

\* C3: in the operations validated against the empty set, every call with
\* a non-empty options object fails and returns no SQL, and every call
\* with absent options returns the statement.
C3_EmptySupportedSet ==
  (pc = "returned" /\ op \in EmptySupportedOperations)
    => /\ OptKeys(args.options) # {} => NoSql
       /\ ~args.options.given => result.ok /\ result.query # <<>>

\* C3 as amended: a non-empty options object always fails; absent options
\* return the statement, except that Db2 renameTableQuery still fails when
\* the schemas of the two tables differ.
C3_EmptySupportedSetAmended ==
  (pc = "returned" /\ op \in EmptySupportedOperations)
    => /\ OptKeys(args.options) # {} => NoSql /\ result.error = ConfigurationError
       /\ ~args.options.given =>
            IF /\ op = "db2.renameTableQuery"
               /\ ExtractTableDetails(args.beforeTableName, "db2").schema
                    # ExtractTableDetails(args.afterTableName, "db2").schema
            THEN NoSql /\ result.error # ConfigurationError
            ELSE result.ok /\ result.query # <<>>

\* An IBM i addColumnQuery call with one option key, rejected by the validator.
C3_Witness ==
  /\ Returned("ibmi.addColumnQuery")
  /\ OptKeys(args.options) = {"ifNotExists"}
  /\ result.error = ConfigurationError

\* C4: in every operation that validates its options the validation is the
\* first step of the call, and a call rejected by the validator has done
\* no other step and has produced nothing.
C4_ValidationFirst ==
  pc = "returned"
    => /\ \A i \in 1..Len(result.steps) : result.steps[i] = "rejectInvalidOptions" => i = 1
       /\ result.error = ConfigurationError
            => result.steps = <<"rejectInvalidOptions">> /\ NoSql /\ result.valueMap = <<>>

\* A Db2 renameTableQuery call that passed validation and went on to the
\* table details and the quoting.
C4_Witness ==
  /\ Returned("db2.renameTableQuery")
  /\ args.options.given
  /\ result.ok
  /\ Len(result.steps) > 1
  /\ result.steps[1] = "rejectInvalidOptions"

SameNameOtherSchema(dialect) ==
  /\ ExtractTableDetails(args.beforeTableName, dialect).tableName
       = ExtractTableDetails(args.afterTableName, dialect).tableName
  /\ ExtractTableDetails(args.beforeTableName, dialect).schema
       # ExtractTableDetails(args.afterTableName, dialect).schema

\* C5: Postgres renameTableQuery with the same tableName and different
\* schemas fails when options.changeSchema is absent or falsy, and
\* otherwise returns ALTER TABLE <quoted before table> SET SCHEMA <quoted
\* after schema>.
C5_SchemaMoveNeedsOptIn ==
  (Returned("postgres.renameTableQuery") /\ SameNameOtherSchema("postgres"))
    => IF Truthy(OptGet(args.options, "changeSchema"))
       THEN /\ result.ok
            /\ result.query =
                 <<"ALTER TABLE ">> \o QuoteTable(args.beforeTableName) \o <<" SET SCHEMA ">>
                   \o QuoteIdentifier(ExtractTableDetails(args.afterTableName, "postgres").schema)
       ELSE NoSql

\* A schema move of a table whose name holds a quote character, to the
\* default schema given by an absent schema.
C5_Witness ==
  /\ Returned("postgres.renameTableQuery")
  /\ SameNameOtherSchema("postgres")
  /\ Truthy(OptGet(args.options, "changeSchema"))
  /\ args.afterTableName.schema = NoSchema
  /\ args.beforeTableName.tableName = <<"u", "\"">>
  /\ result.ok

\* C6: Postgres renameTableQuery with tables that differ in both schema and
\* tableName fails for every value of options.changeSchema, and a RENAME TO
\* statement is returned only when the two schemas are equal.
C6_NoRenameAcrossSchemas ==
  Returned("postgres.renameTableQuery")
    => LET beforeTable == ExtractTableDetails(args.beforeTableName, "postgres")
           afterTable == ExtractTableDetails(args.afterTableName, "postgres")
       IN /\ (beforeTable.schema # afterTable.schema /\ beforeTable.tableName # afterTable.tableName)
               => NoSql
          /\ Includes(result.query, " RENAME TO ") => beforeTable.schema = afterTable.schema

\* A rename and move requested together with changeSchema set, rejected.
C6_Witness ==
  /\ Returned("postgres.renameTableQuery")
  /\ ExtractTableDetails(args.beforeTableName, "postgres").schema
       # ExtractTableDetails(args.afterTableName, "postgres").schema
  /\ args.beforeTableName.tableName # args.afterTableName.tableName
  /\ Truthy(OptGet(args.options, "changeSchema"))
  /\ ~result.ok

\* C7: Db2 renameTableQuery never returns SQL when the schemas of the two
\* tables differ, whatever the options are; with equal schemas and no
\* options it returns RENAME TABLE <quoted before table> TO <quoted after
\* tableName>.
C7_Db2NoSchemaMove ==
  Returned("db2.renameTableQuery")
    => LET beforeTable == ExtractTableDetails(args.beforeTableName, "db2")
           afterTable == ExtractTableDetails(args.afterTableName, "db2")
       IN /\ beforeTable.schema # afterTable.schema => NoSql
          /\ (beforeTable.schema = afterTable.schema /\ ~args.options.given)
               => /\ result.ok
                  /\ result.query =
                       <<"RENAME TABLE ">> \o QuoteTable(args.beforeTableName) \o <<" TO ">>
                         \o QuoteIdentifier(afterTable.tableName)

\* A Db2 rename across schemas without options, rejected for the schemas.
C7_Witness ==
  /\ Returned("db2.renameTableQuery")
  /\ ~args.options.given
  /\ ExtractTableDetails(args.beforeTableName, "db2").schema
       # ExtractTableDetails(args.afterTableName, "db2").schema
  /\ result.error = "Moving tables between schemas is not supported by db2 dialect."

IndexIsUnique(options) ==
  \/ "unique" \in DOMAIN options /\ Truthy(options["unique"])
  \/ "type" \in DOMAIN options /\ options["type"] \in {"unique", "UNIQUE", "Unique"}

\* C8: Db2 addIndexQuery with include columns on an index that is not
\* unique fails with the INCLUDE message and does not call the base
\* addIndexQuery; with include columns on a unique index it delegates to
\* the base addIndexQuery.
C8_Db2IncludeNeedsUnique ==
  (Returned("db2.addIndexQuery") /\ "include" \in DOMAIN args.options)
    => IF IndexIsUnique(args.options)
       THEN result.delegated /\ result.steps = <<"super.addIndexQuery">>
       ELSE result.error = Db2IncludeError /\ NoSql /\ result.steps = <<>>

\* Include columns on an index made unique by its type in mixed case.
C8_Witness ==
  /\ Returned("db2.addIndexQuery")
  /\ "include" \in DOMAIN args.options
  /\ "type" \in DOMAIN args.options
  /\ args.options["type"] = "Unique"
  /\ "unique" \in DOMAIN args.options
  /\ args.options["unique"] = "false"
  /\ result.delegated


\* The SQL texts that escape gives a null: the literal, or a bind marker.
EscapedNull == {EscapeLiteral(Null), <<"?">>} \cup {<<BindMarker(n)>> : n \in 1..4}

\* The VALUES list of the returned query is that of the value map.
ValuesListRendered ==
  IsInfix(<<"VALUES", " ", "(">>
            \o JoinWith([i \in 1..Len(result.valueMap) |-> result.valueMap[i].sql], ",")
            \o <<")">>,
          result.query)

NullRendering ==
  LET attributeMap == BuildAttributeMap(InsertAttributes(args.tableName, args.attributeHash), <<>>)
  IN \A i \in 1..Len(args.value.entries) :
       LET entry == args.value.entries[i]
       IN entry.val = Null
            => /\ ValuesListRendered
               /\ \E j \in 1..Len(result.valueMap) :
                    /\ result.valueMap[j].column = entry.key
                    /\ IF Truthy(AttributeAutoIncrement(attributeMap, entry.key))
                       THEN result.valueMap[j].sql = <<"DEFAULT">>
                       ELSE result.valueMap[j].sql \in EscapedNull

\* C9: in insertQuery a null value of a column flagged autoIncrement is
\* rendered in the VALUES list as DEFAULT, never as a NULL literal, and a
\* null value of any other column is rendered through escape.
C9_NullOfAutoIncrementIsDefault ==
  (Returned("postgres.insertQuery") /\ result.ok) => NullRendering

\* C9 as amended: the same, for a generator whose omitNull option is off.
C9_NullOfAutoIncrementIsDefaultAmended ==
  (Returned("postgres.insertQuery") /\ result.ok /\ ~sequelizeOptions.omitNull) => NullRendering

\* Scenario C with a second column: {id: null, name: null} with id
\* autoIncrement and ignoreDuplicates, rendered as (DEFAULT, <escaped null>).
C9_Witness ==
  /\ Returned("postgres.insertQuery")
  /\ ~sequelizeOptions.omitNull
  /\ Truthy(OptGet(args.options, "ignoreDuplicates"))
  /\ args.value.entries = <<[key |-> "id", val |-> Null], [key |-> "name", val |-> Null]>>
  /\ result.ok
  /\ Len(result.valueMap) = 2
  /\ result.valueMap[1].sql = <<"DEFAULT">>
  /\ result.valueMap[2].sql \in EscapedNull

\* C10: in insertQuery every payload key whose value is undefined is
\* absent from the column list and the value list of the returned query,
\* whatever the attributes of its column are.
C10_UndefinedIsAbsent ==
  (Returned("postgres.insertQuery") /\ result.ok)
    => \A i \in 1..Len(args.value.entries) :
         args.value.entries[i].val = Undefined
           => \A j \in 1..Len(result.valueMap) :
                result.valueMap[j].column # args.value.entries[i].key

\* The options of the insertQuery call are invalid: a key outside the
\* supported set, or both duplicate-handling modes.
InsertOptionsInvalid ==
  \/ \E key \in OptKeys(args.options) : key \notin INSERT_QUERY_SUPPORTED_OPTIONS
  \/ /\ Truthy(OptGet(args.options, "ignoreDuplicates"))
     /\ Truthy(OptGet(args.options, "updateOnDuplicate"))

\* C11: insertQuery with a value payload that is not a mapping (null,
\* undefined, an array, a string, a number) fails with the invalid-value
\* error and returns no query; when the options are invalid too, the call
\* fails with the error of the options instead.
C11_NonMappingValueFails ==
  (Returned("postgres.insertQuery") /\ args.value.kind # "object")
    => /\ NoSql
       /\ result.bind = NoBind
       /\ IF InsertOptionsInvalid
          THEN result.error \in {ConfigurationError, IgnoreAndUpdateError}
          ELSE result.error = InvalidValueError

\* An array payload with valid options, rejected for the payload.
C11_Witness ==
  /\ Returned("postgres.insertQuery")
  /\ args.value.kind = "array"
  /\ OptKeys(args.options) = {"returning", "exception"}
  /\ result.error = InvalidValueError

\* The last operation added an index without a name, and the step removes
\* by the same table and field list.
RemovesByFieldsAfterAdd ==
  /\ op = "queryInterface.addIndex"
  /\ result.ok
  /\ "name" \notin DOMAIN args.options
  /\ op' = "queryInterface.removeIndex"
  /\ args'.tableName = args.tableName
  /\ args'.indexNameOrAttributes.isArray
  /\ args'.indexNameOrAttributes.fields = args.options.fields

\* C12: addIndex without a name creates the index named by the derivation
\* from the table and the ordered field list alone, and removeIndex with
\* the same table and field list then names exactly that index in its
\* statement and removes it, leaving the others.
C12_RemoveByFieldsTargetsAddedIndex ==
  [][RemovesByFieldsAfterAdd
       => LET table == ExtractTableDetails(args.tableName, "postgres")
              derived == table.tableName \o JoinFields(args.options.fields)
              added == {e \in indexes : e.schema = table.schema /\ e.name = derived}
          IN /\ Cardinality(added) = 1
             /\ \A e \in added :
                  e.fields = [i \in 1..Len(args.options.fields) |->
                                [name |-> args.options.fields[i], order |-> "ASC"]]
             /\ result'.ok
             /\ IsInfix(<<" ">> \o QuoteIdentifier(table.schema) \o <<".">>
                          \o QuoteIdentifier(derived), result'.query)
             /\ indexes' = indexes \ added]_vars

\* An index on (g, f) of the table in schema a was removed by its field
\* list, while an index of another name stays.
C12_Witness ==
  /\ op = "queryInterface.removeIndex"
  /\ args.tableName.schema = <<"a">>
  /\ args.indexNameOrAttributes.isArray
  /\ args.indexNameOrAttributes.fields = << <<"g">>, <<"f">> >>
  /\ ~args.options.given
  /\ result.ok
  /\ \E e \in indexes : ~e.primary /\ e.schema = <<"a">>
  /\ ~\E e \in indexes : e.name = <<"t", "_", "g", "_", "f">>

\* C13: after addIndex with a field list alone, showIndexes of the table
\* lists exactly one entry of the derived name; it is neither unique nor
\* primary and has the fields in input order, each with order ASC.
C13_ShowListsAddedIndex ==
  [][(/\ op = "queryInterface.addIndex"
      /\ result.ok
      /\ DOMAIN args.options = {"fields"}
      /\ op' = "queryInterface.showIndexes"
      /\ args'.tableName = args.tableName)
       => LET table == ExtractTableDetails(args.tableName, "postgres")
              derived == table.tableName \o JoinFields(args.options.fields)
              named == {e \in result'.rows : e.name = derived}
          IN /\ Cardinality(named) = 1
             /\ \A e \in named :
                  /\ ~e.unique
                  /\ ~e.primary
                  /\ e.tableName = table.tableName
                  /\ e.schema = table.schema
                  /\ e.fields = [i \in 1..Len(args.options.fields) |->
                                   [name |-> args.options.fields[i], order |-> "ASC"]]]_vars

\* showIndexes of the table in the default schema lists the primary key and
\* the index derived from (f, g), while schema a holds an index of its own.
C13_Witness ==
  /\ op = "queryInterface.showIndexes"
  /\ args.tableName.schema = NoSchema
  /\ Cardinality(result.rows) = 2
  /\ \E e \in result.rows :
       /\ e.name = <<"t", "_", "f", "_", "g">>
       /\ ~e.unique
       /\ e.fields = <<[name |-> <<"f">>, order |-> "ASC"], [name |-> <<"g">>, order |-> "ASC"]>>
  /\ \E e \in indexes : e.schema = <<"a">> /\ ~e.primary

\* C14: removeIndex with a string name removes the index of that name in
\* the table's schema and no other index, of this or of any other schema;
\* its statement names the string, quoted and qualified by the table's
\* schema; showIndexes lists only indexes that exist, so never a removed one.
C14_RemoveByNameRemovesOnlyThat ==
  [][/\ (op' = "queryInterface.removeIndex" /\ ~args'.indexNameOrAttributes.isArray)
          => LET table == ExtractTableDetails(args'.tableName, "postgres")
                 named == {e \in indexes : /\ e.schema = table.schema
                                           /\ e.name = args'.indexNameOrAttributes.name}
             IN /\ indexes' = indexes \ named
                /\ named # {} => result'.ok
                /\ SubSeq(result'.query, Len(result'.query) - 6, Len(result'.query))
                     = <<"\"">> \o table.schema \o <<"\"", ".", "\"">>
                         \o args'.indexNameOrAttributes.name \o <<"\"">>
     /\ op' = "queryInterface.showIndexes"
          => /\ result'.rows \subseteq indexes'
             /\ indexes' = indexes]_vars

\* The index named i of the table in the default schema was removed, and
\* the index of the same name in schema a is still there.
C14_Witness ==
  /\ op = "queryInterface.removeIndex"
  /\ ~args.indexNameOrAttributes.isArray
  /\ args.tableName.schema = NoSchema
  /\ ~args.options.given
  /\ result.ok
  /\ \E e \in indexes : e.schema = <<"a">> /\ e.name = <<"i">>
  /\ ~\E e \in indexes : e.schema = <<"p">> /\ e.name = <<"i">>

ListOperations ==
  {"postgres.listDatabasesQuery", "postgres.listSchemasQuery", "postgres.listTablesQuery",
   "db2.listSchemasQuery", "db2.listTablesQuery"}

\* The technical names of the dialect for a list operation.
TechnicalNames(name) ==
  CASE name = "postgres.listDatabasesQuery" -> PgTechnicalDatabaseNames
    [] name \in {"postgres.listSchemasQuery", "postgres.listTablesQuery"} -> PgTechnicalSchemaNames
    [] OTHER -> Db2TechnicalSchemaNames

\* The names that the NOT IN (...) list of a query excludes.
ExcludedNames(query) ==
  IF ~Includes(query, "NOT IN (") THEN {}
  ELSE LET start == CHOOSE i \in 1..Len(query) : query[i] = "NOT IN ("
           close == CHOOSE j \in start..Len(query) :
                      /\ query[j] = ")"
                      /\ \A k \in start..(j - 1) : query[k] # ")"
       IN {query[k] : k \in (start + 1)..(close - 1)} \ {"'", ", "}

\* The query restricts the listing to the one schema filter.
FiltersSchema(query, filter) ==
  \/ IsInfix(<<"AND table_schema = ">> \o EscapeLiteral(filter) \o <<" ">>, query)
  \/ IsInfix(<<"AND TABSCHEMA = ">> \o EscapeLiteral(filter) \o <<" ">>, query)

\* The query leaves the name out of what it lists: the name is in the
\* NOT IN list, or the listing is restricted to a schema of another name.
Excludes(query, name) ==
  \/ name \in ExcludedNames(query)
  \/ \E filter \in SchemaFilters \ {name} : FiltersSchema(query, filter)

\* C15: every list operation returns a query that excludes every technical
\* name of its dialect, for every options value, a skip list or a schema
\* filter included; the names of a skip list are excluded in addition to
\* the technical ones.
C15_ListsExcludeTechnicalNames ==
  (pc = "returned" /\ op \in ListOperations)
    => /\ result.ok
       /\ \A i \in 1..Len(TechnicalNames(op)) : Excludes(result.query, TechnicalNames(op)[i])
       /\ op \notin {"postgres.listTablesQuery", "db2.listTablesQuery"}
            => \A i \in 1..Len(SkipList(args.options)) :
                 SkipList(args.options)[i] \in ExcludedNames(result.query)

\* Every list query except a listTablesQuery with a schema filter excludes
\* the technical names and the skip list.
ListsExcludeTechnicalNamesWithoutFilter ==
  (pc = "returned" /\ op \in ListOperations
     /\ ~(op \in {"postgres.listTablesQuery", "db2.listTablesQuery"}
            /\ Truthy(SchemaFilter(args.options))))
    => /\ result.ok
       /\ \A i \in 1..Len(TechnicalNames(op)) : TechnicalNames(op)[i] \in ExcludedNames(result.query)
       /\ op \notin {"postgres.listTablesQuery", "db2.listTablesQuery"}
            => \A i \in 1..Len(SkipList(args.options)) :
                 SkipList(args.options)[i] \in ExcludedNames(result.query)

\* A listTablesQuery with a schema filter lists a technical schema only when
\* the filter names it.
ListTablesFilterNamesTechnical ==
  (pc = "returned" /\ op \in ListOperations
     /\ \E i \in 1..Len(TechnicalNames(op)) : ~Excludes(result.query, TechnicalNames(op)[i]))
    => /\ op \in {"postgres.listTablesQuery", "db2.listTablesQuery"}
       /\ \E i \in 1..Len(TechnicalNames(op)) : SchemaFilter(args.options) = TechnicalNames(op)[i]

\* The primary-key columns of an attribute list, in attribute order.
PrimaryKeyColumns(attributes) ==
  LET keys == SelectSeq(attributes, LAMBDA a : Includes(a.dataType, "PRIMARY KEY"))
  IN [i \in 1..Len(keys) |-> keys[i].attr]

Elements(names) == {names[i] : i \in 1..Len(names)}

\* The number of UNIQUE clauses of the query that list exactly these fields
\* in this order.
UniqueClauses(query, fields) ==
  Cardinality({i \in 1..Len(query) :
    /\ query[i] = " UNIQUE ("
    /\ i + Len(QuoteColumns(fields)) + 1 <= Len(query)
    /\ SubSeq(query, i + 1, i + Len(QuoteColumns(fields)) + 1) = QuoteColumns(fields) \o <<")">>})

\* The number of constraint clauses that createTableQuery appended for unique keys.
ConstraintClauses(query) == Cardinality({i \in 1..Len(query) : query[i] = ", CONSTRAINT "})

CreatedTableWithUniqueKeys ==
  /\ pc = "returned" /\ op = "ibmi.createTableQuery" /\ result.ok
  /\ Truthy(OptGet(args.options, "uniqueKeys"))

\* C16: in createTableQuery a unique key whose fields are the same set of
\* columns as the primary key, in any order, produces no UNIQUE clause, and
\* every unique key of another column set produces exactly one
\* CONSTRAINT ... UNIQUE clause with its fields in the order given.
C16_UniqueKeyOfPrimaryKeySkipped ==
  CreatedTableWithUniqueKeys
    => LET uniqueKeys == UniqueKeysValue(OptGet(args.options, "uniqueKeys"))
           primaryKeys == PrimaryKeyColumns(args.attributes)
           kept == {k \in 1..Len(uniqueKeys) :
                      Elements(uniqueKeys[k].fields) # Elements(primaryKeys)}
       IN /\ \A k \in 1..Len(uniqueKeys) :
               UniqueClauses(result.query, uniqueKeys[k].fields) = (IF k \in kept THEN 1 ELSE 0)
          /\ ConstraintClauses(result.query) = Cardinality(kept)

\* A unique key listing the two primary-key columns in the other order was
\* skipped, and so was not a unique key of another column set.
C16_Witness ==
  /\ CreatedTableWithUniqueKeys
  /\ OptGet(args.options, "uniqueKeys") = "ukBA"
  /\ PrimaryKeyColumns(args.attributes) = <<"a", "b">>
  /\ ConstraintClauses(result.query) = 0

\* The unique key differs from the primary key only in the letter case of
\* its column names.
DiffersOnlyInCase(fields, primaryKeys) ==
  /\ Elements(fields) # Elements(primaryKeys)
  /\ UniqueIsPrimary_IgnoreCase(fields, primaryKeys)

\* C17: the comparison of a unique key with the primary key is
\* case-insensitive: a unique key whose field names differ from the
\* primary-key columns only in letter case produces no UNIQUE clause.
C17_CaseInsensitiveSkip ==
  CreatedTableWithUniqueKeys
    => LET uniqueKeys == UniqueKeysValue(OptGet(args.options, "uniqueKeys"))
           primaryKeys == PrimaryKeyColumns(args.attributes)
       IN \A k \in 1..Len(uniqueKeys) :
            DiffersOnlyInCase(uniqueKeys[k].fields, primaryKeys)
              => UniqueClauses(result.query, uniqueKeys[k].fields) = 0

\* C17 as the code has it: the comparison is of the exact column names, so a
\* unique key that differs from the primary key only in letter case is kept
\* and produces one CONSTRAINT ... UNIQUE clause with its fields as given.
C17_CaseSensitiveComparison ==
  CreatedTableWithUniqueKeys
    => LET uniqueKeys == UniqueKeysValue(OptGet(args.options, "uniqueKeys"))
           primaryKeys == PrimaryKeyColumns(args.attributes)
       IN \A k \in 1..Len(uniqueKeys) :
            DiffersOnlyInCase(uniqueKeys[k].fields, primaryKeys)
              => /\ UniqueClauses(result.query, uniqueKeys[k].fields) = 1
                 /\ IsInfix(<<", CONSTRAINT ">>
                              \o QuoteIdentifier(<<"uniq_">> \o args.tableName.tableName \o <<"_">>
                                    \o JoinWith([i \in 1..Len(uniqueKeys[k].fields) |->
                                                   <<uniqueKeys[k].fields[i]>>], "_"))
                              \o <<" UNIQUE (">>, result.query)

\* The table has the primary key a and the unique key A, and the statement
\* holds the UNIQUE clause of A next to the primary key of a.
C17_Witness ==
  /\ CreatedTableWithUniqueKeys
  /\ OptGet(args.options, "uniqueKeys") = "ukUpperA"
  /\ PrimaryKeyColumns(args.attributes) = <<"a">>
  /\ UniqueClauses(result.query, <<"A">>) = 1
  /\ IsInfix(<<", PRIMARY KEY (">> \o QuoteColumns(<<"a">>) \o <<")">>, result.query)

\* The texts of a list one after the other, nothing between them.
RECURSIVE Concat(_)
Concat(texts) == IF texts = <<>> THEN <<>> ELSE Head(texts) \o Concat(Tail(texts))

IsSpace(token) == token = " "

\* The text has no leading, trailing or doubled separating space.
NoDanglingSpace(text) ==
  /\ text # <<>> => ~IsSpace(text[1]) /\ ~IsSpace(text[Len(text)])
  /\ \A i \in 1..(Len(text) - 1) : ~(IsSpace(text[i]) /\ IsSpace(text[i + 1]))

\* The operations of the generators that assemble their statement with
\* joinSQLFragments from clauses that hold no space of their own.
AssembledOperations ==
  {"postgres.createDatabaseQuery", "postgres.truncateTableQuery", "postgres.removeIndexQuery",
   "postgres.listDatabasesQuery", "postgres.listSchemasQuery", "postgres.listTablesQuery",
   "db2.listSchemasQuery", "db2.listTablesQuery"}

\* C18: joinSQLFragments returns the non-empty fragments in their order,
\* separated by exactly one space, with no leading, trailing or doubled
\* space; so the statement of every combination of optional clauses
\* (truncateTableQuery, removeIndexQuery and the other assembled
\* operations) has single spaces and no dangling one.
C18_JoinSkipsEmptyFragments ==
  /\ (pc = "returned" /\ op = "joinSQLFragments")
       => LET kept == SelectSeq(args.fragments, LAMBDA f : f # <<>>)
              spaces == SelectSeq(result.query, IsSpace)
          IN /\ SelectSeq(result.query, LAMBDA token : ~IsSpace(token)) = Concat(kept)
             /\ Len(spaces) = (IF kept = <<>> THEN 0 ELSE Len(kept) - 1)
             /\ NoDanglingSpace(result.query)
  /\ (pc = "returned" /\ op \in AssembledOperations /\ result.ok)
       => NoDanglingSpace(result.query)

\* A list with an empty fragment between two clauses and one after them was
\* joined to the two clauses and one space.
C18_Witness ==
  /\ pc = "returned" /\ op = "joinSQLFragments"
  /\ args.fragments = << <<"SELECT *">>, <<>>, <<"FROM t">>, <<>> >>
  /\ result.query = <<"SELECT *", " ", "FROM t">>

\* The two calls returned the same: both failed with the same error, or
\* both returned the same query text and the same bind parameters.
SameResult ==
  /\ result.ok = previous.ok
  /\ result.error = previous.error
  /\ result.query = previous.query
  /\ result.bind = previous.bind

\* The call is an insertQuery that takes the exception branch.
InsertsInExceptionMode ==
  /\ op = "postgres.insertQuery"
  /\ result.ok
  /\ Truthy(OptGet(args.options, "exception"))
  /\ Len(result.valueMap) > 0

WithoutRandom(query) == SelectSeq(query, LAMBDA token : token \notin Randoms)

C19_WitnessPlainInsert ==
  /\ pc = "recalled" /\ op = "postgres.insertQuery" /\ result.ok
  /\ result.bind.given /\ Len(result.bind.values) > 0
  /\ SameResult

\* The positions of a token in a text.
Positions(text, token) == {i \in 1..Len(text) : text[i] = token}

\* The text holds these tokens once each, in this order.
InOrder(text, tokens) ==
  /\ \A k \in 1..Len(tokens) : Cardinality(Positions(text, tokens[k])) = 1
  /\ \A k \in 1..(Len(tokens) - 1) :
       \A i \in Positions(text, tokens[k]) : \A j \in Positions(text, tokens[k + 1]) : i < j

ReturnedExceptionInsert ==
  /\ pc = "returned" /\ op = "postgres.insertQuery" /\ result.ok
  /\ Truthy(OptGet(args.options, "exception"))
  /\ Len(result.valueMap) > 0

\* C20: the batch of an exception-mode insert with at least one column is,
\* in this order, the creation of the temporary routine, the delimiter, the
\* routine body from BEGIN INSERT INTO to END;, the same delimiter, the
\* language clause, the SELECT that invokes the routine and, last, DROP
\* FUNCTION IF EXISTS; the delimiter occurs exactly twice, and the cleanup
\* is there for every payload and option combination of the mode.
C20_ExceptionBatchOrderAndCleanup ==
  ReturnedExceptionInsert
    => LET batch == result.query
           opens == Positions(batch, "$func_")
           open == CHOOSE i \in opens : \A j \in opens : i <= j
           close == CHOOSE i \in opens : \A j \in opens : j <= i
           At(token) == CHOOSE i \in Positions(batch, token) : TRUE
       IN /\ batch[1] = "CREATE OR REPLACE FUNCTION pg_temp.testfunc(OUT response "
          /\ Cardinality(opens) = 2
          /\ SubSeq(batch, open, open + 2) = SubSeq(batch, close, close + 2)
          /\ batch[open + 2] = "$" /\ batch[open + 1] \in Randoms
          /\ InOrder(batch, <<"BEGIN INSERT INTO", "END;", "LANGUAGE plpgsql;",
                                "SELECT (testfunc.response).",
                                "DROP FUNCTION IF EXISTS pg_temp.testfunc()">>)
          /\ 1 < open /\ open < At("BEGIN INSERT INTO")
          /\ At("END;") < close /\ close < At("LANGUAGE plpgsql;")
          /\ batch[Len(batch)] = "DROP FUNCTION IF EXISTS pg_temp.testfunc()"
          /\ ~result.bind.given

\* An exception-mode insert that also ignores duplicates and asks for
\* returned columns ends with the cleanup statement.
C20_Witness ==
  /\ ReturnedExceptionInsert
  /\ Truthy(OptGet(args.options, "ignoreDuplicates"))
  /\ Truthy(OptGet(args.options, "returning"))
  /\ Includes(result.query, "ON CONFLICT DO NOTHING")
  /\ result.query[Len(result.query)] = "DROP FUNCTION IF EXISTS pg_temp.testfunc()"

\* The call rendered a column definition that is primaryKey and allowNull: true.
RenderedNullablePrimaryKey ==
  /\ pc = "returned"
  /\ \/ op = "ibmi.attributeToSQL"
          /\ Truthy(args.attribute.primaryKey) /\ args.attribute.allowNull = "true"
     \/ op = "ibmi.addColumnQuery"
          /\ Truthy(args.dataType.primaryKey) /\ args.dataType.allowNull = "true"

\* C21: for every attribute that is primaryKey and allowNull: true and every
\* context, attributeToSQL fails or normalizes: its output never holds
\* both DROP NOT NULL and PRIMARY KEY.
C21_NullablePrimaryKeyNotRendered ==
  RenderedNullablePrimaryKey
    => \/ ~result.ok
       \/ ~(Includes(result.query, " DROP NOT NULL") /\ Includes(result.query, " PRIMARY KEY"))

\* Outside the changeColumn context the definition of such an attribute
\* holds PRIMARY KEY and no nullability fragment.
NullablePrimaryKeyOutsideChangeColumn ==
  (RenderedNullablePrimaryKey /\ result.ok
     /\ ~(op = "ibmi.attributeToSQL" /\ args.options.given /\ args.options.context = "changeColumn"))
    => /\ Includes(result.query, " PRIMARY KEY")
       /\ ~Includes(result.query, " DROP NOT NULL")

\* The keys of an attributes object whose definition does, or does not,
\* hold REFERENCES.
ReferencingKeys(attributes) ==
  {i \in 1..Len(attributes) : Includes(attributes[i].definition, " REFERENCES ")
                                 \/ Includes(attributes[i].definition, "REFERENCES ")}

PlainKeys(attributes) == (1..Len(attributes)) \ ReferencingKeys(attributes)

\* C22: changeColumnQuery puts every attribute in exactly one sub-clause, a
\* definition with REFERENCES in ADD CONSTRAINT as a FOREIGN KEY and every
\* other in ALTER COLUMN ... SET DATA TYPE; ALTER COLUMN precedes ADD
\* CONSTRAINT; each keyword is emitted iff its list is non-empty; both are in
\* one ALTER TABLE statement.
C22_ChangeColumnSeparatesClauses ==
  (pc = "returned" /\ op = "ibmi.changeColumnQuery")
    => LET query == result.query
           plain == PlainKeys(args.attributes)
           referencing == ReferencingKeys(args.attributes)
           alter == Positions(query, "ALTER COLUMN ")
           add == Positions(query, "ADD CONSTRAINT ")
           types == Positions(query, " SET DATA TYPE ")
           foreign == Positions(query, " FOREIGN KEY (")
       IN /\ result.ok
          /\ Positions(query, "ALTER TABLE ") = {1}
          /\ Cardinality(alter) = (IF plain = {} THEN 0 ELSE 1)
          /\ Cardinality(add) = (IF referencing = {} THEN 0 ELSE 1)
          /\ \A i \in alter : \A j \in add : i < j
          /\ Cardinality(types) = Cardinality(plain)
          /\ Cardinality(foreign) = Cardinality(referencing)
          /\ \A t \in types : (\A i \in alter : i < t) /\ (\A j \in add : t < j)
          /\ \A f \in foreign : \A j \in add : j < f
          /\ \A k \in plain :
               IsInfix(args.attributes[k].attributeName \o <<"\"", " SET DATA TYPE ">>
                         \o args.attributes[k].definition, query)
          /\ \A k \in referencing :
               IsInfix(<<" FOREIGN KEY (">> \o QuoteIdentifier(args.attributes[k].attributeName)
                         \o <<") ", "REFERENCES ">>, query)

\* A type change of column a and a foreign key of column b came out as one
\* statement with both sub-clauses.
C22_Witness ==
  /\ pc = "returned" /\ op = "ibmi.changeColumnQuery"
  /\ Len(args.attributes) = 2
  /\ args.attributes[1].attributeName = <<"b">> /\ 1 \in ReferencingKeys(args.attributes)
  /\ args.attributes[2].attributeName = <<"a">> /\ 2 \in PlainKeys(args.attributes)
  /\ Includes(result.query, "ALTER COLUMN ") /\ Includes(result.query, "ADD CONSTRAINT ")

\* C23: every identifier that IBM i createTableQuery, addColumnQuery,
\* changeColumnQuery and renameColumnQuery put in their SQL text passed
\* through quoteIdentifier: every column name stands in the statement
\* wrapped in the quote character with embedded quote characters doubled.
C23_IdentifiersPassTheEscaper ==
  (pc = "returned" /\ result.ok)
    => /\ op = "ibmi.createTableQuery"
            => \A i \in 1..Len(args.attributes) :
                 IsInfix(QuoteIdentifier(<<args.attributes[i].attr>>) \o <<" ">>, result.query)
       /\ op = "ibmi.addColumnQuery"
            => IsInfix(<<" ADD ">> \o QuoteIdentifier(<<args.key>>) \o <<" ">>, result.query)
       /\ op = "ibmi.changeColumnQuery"
            => /\ \A k \in PlainKeys(args.attributes) :
                    IsInfix(QuoteIdentifier(args.attributes[k].attributeName)
                              \o <<" SET DATA TYPE ">>, result.query)
               /\ \A k \in ReferencingKeys(args.attributes) :
                    IsInfix(QuoteIdentifier(args.attributes[k].attributeName)
                              \o <<" FOREIGN KEY (">>
                              \o QuoteIdentifier(args.attributes[k].attributeName) \o <<") ">>,
                            result.query)
       /\ op = "ibmi.renameColumnQuery"
            => \A k \in 1..Len(args.attributes) :
                 IsInfix(QuoteIdentifier(args.attrBefore) \o <<" ">>
                           \o QuoteIdentifier(args.attributes[k].attributeName) \o <<" ">>,
                         result.query)

\* What of C23 the code does: createTableQuery and addColumnQuery quote
\* their column names, changeColumnQuery quotes the names of its foreign
\* keys, and it wraps the other names in quote characters without doubling,
\* which is the quoted name when the name holds no quote character;
\* renameColumnQuery puts both names between grave accents as they are.
IdentifiersQuotedExceptRawNames ==
  (pc = "returned" /\ result.ok)
    => /\ op = "ibmi.createTableQuery"
            => \A i \in 1..Len(args.attributes) :
                 IsInfix(QuoteIdentifier(<<args.attributes[i].attr>>) \o <<" ">>, result.query)
       /\ op = "ibmi.addColumnQuery"
            => IsInfix(<<" ADD ">> \o QuoteIdentifier(<<args.key>>) \o <<" ">>, result.query)
       /\ op = "ibmi.changeColumnQuery"
            => /\ \A k \in PlainKeys(args.attributes) :
                    ~Includes(args.attributes[k].attributeName, "\"")
                      => IsInfix(QuoteIdentifier(args.attributes[k].attributeName)
                                   \o <<" SET DATA TYPE ">>, result.query)
               /\ \A k \in ReferencingKeys(args.attributes) :
                    IsInfix(QuoteIdentifier(args.attributes[k].attributeName)
                              \o <<" FOREIGN KEY (">>
                              \o QuoteIdentifier(args.attributes[k].attributeName) \o <<") ">>,
                            result.query)
       /\ op = "ibmi.renameColumnQuery"
            => \A k \in 1..Len(args.attributes) :
                 IsInfix(<<GraveAccent>> \o args.attrBefore \o <<GraveAccent, " ", GraveAccent>>
                           \o args.attributes[k].attributeName \o <<GraveAccent, " ">>,
                         result.query)

\* What the call of caller c returns when it runs alone.
Alone(c) ==
  LET a == calls[c].args
  IN PgInsertQuery(a.tableName, a.value, a.options, a.attributeHash, sequelizeOptions, a.random)

CallReturned(c) == Begun(calls[c]) /\ calls[c].pc = "returned"

\* C24: interleaved insertQuery calls on one generator do not interfere:
\* under every interleaving each call returns what it returns when run
\* alone, and the bind parameters of no call hold a value of another call.
C24_InterleavedCallsDoNotInterfere ==
  \A c \in Callers :
    CallReturned(c)
      => /\ calls[c].result.ok = Alone(c).ok
         /\ calls[c].result.error = Alone(c).error
         /\ calls[c].result.query = Alone(c).query
         /\ calls[c].result.bind = Alone(c).bind
         /\ \A d \in Callers \ {c} :
              \A i \in 1..Len(calls[c].result.bind.values) :
                calls[c].result.bind.values[i] # OwnValue(d)

\* Caller 1 returned its two bind parameters while the call of caller 2 was
\* in its loop with one value bound and one entry to go.
C24_Witness ==
  /\ CallReturned(1)
  /\ calls[1].result.ok /\ calls[1].result.bind.values = <<OwnValue(1), OwnValue(1)>>
  /\ Begun(calls[2]) /\ calls[2].pc = "loop"
  /\ Len(calls[2].valueHash) = 1 /\ heap[BindObject(2)] = <<OwnValue(2)>>

ReturnedInsert == pc = "returned" /\ op = "postgres.insertQuery" /\ result.ok

\* The call disables the bind function: exception, searchPath or the
\* prependSearchPath dialect option is set.
BindDisabled ==
  \/ sequelizeOptions.prependSearchPath
  \/ Truthy(OptGet(args.options, "searchPath"))
  \/ Truthy(OptGet(args.options, "exception"))

\* The SQL of a value that went through a bind function.
IsBindMarker(token) == token = "?" \/ \E n \in 1..4 : token = BindMarker(n)

C25_WitnessBound ==
  /\ ReturnedInsert
  /\ ~BindDisabled
  /\ IsInfix(<<"(", BindMarker(1), ")">>, result.query)
  /\ result.bind = [given |-> TRUE, values |-> <<"v">>]

(***************************************************************************)
(* The insert without columns.                                             *)
(***************************************************************************)
\* The payload entries that the loop of insertQuery turns into a column.
InsertedEntries ==
  SelectSeq(RemoveNullishValuesFromHash(args.value.entries, sequelizeOptions.omitNull),
            LAMBDA e : InsertValueKind(
                         BuildAttributeMap(InsertAttributes(args.tableName, args.attributeHash), <<>>),
                         e.key, e.val) # "skip")

\* The tokens of a statement with a column list, a VALUES list, a conflict
\* clause or the routine wrapper.
IsColumnInsertToken(token) ==
  \/ token \in {"(", ")", "VALUES", "ON CONFLICT DO NOTHING", "BEGIN INSERT INTO",
                 "$func_", "LANGUAGE plpgsql;", "RETURNING * INTO response;"}
  \/ token = GenerateUpdateOnDuplicateKeysFragment[1]
  \/ token = PgExceptionCleanup[1]

\* C26: when no column remains to insert, insertQuery returns INSERT INTO
\* <table> DEFAULT VALUES, followed by the RETURNING clause only when
\* returning is requested; the statement has no column list, no VALUES list,
\* no ON CONFLICT clause and no routine wrapper, whatever ignoreDuplicates,
\* updateOnDuplicate and exception say.
C26_NoColumnInsertsDefaultValues ==
  ReturnedInsert /\ InsertedEntries = <<>>
    => /\ result.query
            = <<"INSERT INTO", " ">> \o QuoteTable(args.tableName) \o <<" ", "DEFAULT VALUES">>
                \o (IF Truthy(OptGet(args.options, "returning"))
                    THEN <<" ", "RETURNING", " ">>
                           \o JoinWith(GetReturnFields(OptGet(args.options, "returning")), ", ")
                    ELSE <<>>)
       /\ \A i \in 1..Len(result.query) : ~IsColumnInsertToken(result.query[i])

\* An exception-mode insert whose only key was skipped returned the plain
\* DEFAULT VALUES statement.
C26_Witness ==
  /\ ReturnedInsert /\ InsertedEntries = <<>>
  /\ args.value.entries # <<>>
  /\ Truthy(OptGet(args.options, "exception"))
  /\ IsInfix(<<"DEFAULT VALUES">>, result.query)

\* The same with an empty payload and one of the two conflict options.
C26_WitnessConflictOptions ==
  /\ ReturnedInsert /\ args.value.entries = <<>>
  /\ Truthy(OptGet(args.options, "ignoreDuplicates")) \/ Truthy(OptGet(args.options, "updateOnDuplicate"))
  /\ Truthy(OptGet(args.options, "returning"))
  /\ IsInfix(<<"DEFAULT VALUES", " ", "RETURNING">>, result.query)

(***************************************************************************)
(* Db2 showConstraintsQuery: the constraint type filter.                   *)
(***************************************************************************)
ShownConstraints == pc = "returned" /\ op = "db2.showConstraintsQuery"

SupportedConstraintTypes == {"PRIMARY KEY", "FOREIGN KEY", "UNIQUE", "CHECK"}

\* The letters that stand after the predicate c.TYPE = of a query.
TypePredicateLetters(query) ==
  {query[i + 2] : i \in {j \in 1..(Len(query) - 3) :
                           query[j] = "AND c.TYPE = " /\ query[j + 1] = "'" /\ query[j + 3] = "'"}}

\* The constraint types that the CASE expression of a query gives for a
\* letter: WHEN '<letter>' THEN '<type>'.
MappedBack(query, letter) ==
  {query[i + 9] : i \in {j \in 1..(Len(query) - 9) :
                           /\ query[j] = "WHEN" /\ query[j + 3] = letter
                           /\ query[j + 6] = "THEN"}}

\* C27: for each of PRIMARY KEY, FOREIGN KEY, UNIQUE and CHECK the letter in
\* the predicate c.TYPE = <letter> is the one the CASE expression of the query
\* maps back to that constraint type; any other constraintType fails with an
\* error and no SQL; an absent constraintType adds no type predicate.
C27_TypeLetterInvertsCase ==
  ShownConstraints
    => LET constraintType == OptGet(args.options, "constraintType")
       IN /\ constraintType \in SupportedConstraintTypes
               => /\ result.ok
                  /\ Cardinality(TypePredicateLetters(result.query)) = 1
                  /\ \A letter \in TypePredicateLetters(result.query) :
                       MappedBack(result.query, letter) = {constraintType}
          /\ Truthy(constraintType) /\ constraintType \notin SupportedConstraintTypes
               => /\ ~result.ok /\ result.query = <<>>
                  /\ result.error = ConstraintTypeError(constraintType)
          /\ ~Truthy(constraintType)
               => /\ result.ok
                  /\ \A i \in 1..Len(result.query) : result.query[i] # "AND c.TYPE = "

\* A query filtered by CHECK carries the predicate c.TYPE = 'K'.
C27_Witness ==
  /\ ShownConstraints /\ result.ok
  /\ OptGet(args.options, "constraintType") = "CHECK"
  /\ IsInfix(<<"AND c.TYPE = ", "'", "K", "'", " ", "ORDER BY c.CONSTNAME, k.COLSEQ, fk.COLSEQ">>,
             result.query)

\* A constraint type outside the four was refused.
C27_WitnessUnsupported ==
  /\ ShownConstraints /\ ~result.ok
  /\ OptGet(args.options, "constraintType") = "unique"

(***************************************************************************)
(* The caller's objects after a call.                                      *)
(***************************************************************************)
ReturnedToCaller ==
  /\ pc = "returned"
  /\ op \in {"ibmi.attributeToSQL", "ibmi.attributesToSQL", "ibmi.addColumnQuery",
              "postgres.insertQuery"}

\* C28: generator operations leave the objects passed by the caller
\* unchanged: after IBM i attributeToSQL, attributesToSQL or addColumnQuery
\* every field of the caller's attribute object has the value it had before
\* the call, and after Postgres insertQuery the caller's options object and
\* value payload are unchanged.
C28_CallerObjectsUnchanged == ReturnedToCaller => caller = args

\* The same without attributeToSQL called on the caller's own object.
CallerObjectsUnchangedByCopyingOperations ==
  ReturnedToCaller /\ op # "ibmi.attributeToSQL" => caller = args

\* attributeToSQL leaves every field but defaultValue, and writes 1 for true
\* and 0 for false when it renders the default.
AttributeToSQLWritesDefaultValueOnly ==
  pc = "returned" /\ op = "ibmi.attributeToSQL"
    => /\ \A f \in DOMAIN args.attribute \ {"defaultValue"} :
            caller.attribute[f] = args.attribute[f]
       /\ caller.options = args.options
       /\ caller.attribute.defaultValue # args.attribute.defaultValue
            <=> /\ args.attribute.defaultValue \in {"true", "false"}
                /\ args.attribute.type \notin {"BLOB", "CHAR BINARY"}

\* addColumnQuery rendered DEFAULT 1 for a true default and left it true.
AddColumnLeftDefaultValue ==
  /\ pc = "returned" /\ op = "ibmi.addColumnQuery" /\ result.ok
  /\ args.dataType.defaultValue = "true" /\ caller.dataType.defaultValue = "true"
  /\ IsInfix(<<" DEFAULT ", "1">>, result.query)

====
